---------------------------- MODULE Spec2Model ----------------------------
(***************************************************************************)
(* A model of TaskService (server/src/module/monitor/job/task.service.ts): *)
(* the task registry built by initializeTasks, getTasks, and the           *)
(* string-driven dispatcher executeTask with its argument decoder          *)
(* parseParams.                                                            *)
(*                                                                         *)
(* Text is a sequence of one-character strings.  A decoded JavaScript      *)
(* value is a self-delimiting sequence of strings (see the Enc operators): *)
(* two values have the same encoding exactly when they have the same type  *)
(* and content, an object being encoded by its own properties.             *)
(***************************************************************************)
EXTENDS Integers, Sequences, FiniteSets, TLC

(***************************************************************************)
(* Bounds of the model.                                                    *)
(***************************************************************************)
\* number of executeTask calls that may be in flight together
NumCalls == 2
\* longest raw argument text enumerated over RawAlphabet
MaxRawLen == 3
\* longest handler table enumerated besides the one of the source
MaxMethods == 3
\* longest list of literals joined into an argument text
MaxArgs == 2

(***************************************************************************)
(* Characters.  A character is a one-character string; a character that a  *)
(* string of this notation cannot hold is written by its code point, as    *)
(* in "U+2028".                                                            *)
(***************************************************************************)
SQ == "'"
DQ == "\""

\* the characters `.` does not match in a regular expression without /s:
\* line feed, carriage return, line separator, paragraph separator
LineTerminators == {"\n", "\r", "U+2028", "U+2029"}

\* the characters \s matches, String.prototype.trim strips and the
\* language skips between tokens: tab, line feed, line tabulation (U+000B),
\* form feed, carriage return, space, no-break space (U+00A0), ogham space
\* mark (U+1680), the spaces U+2000 to U+200A, the line and paragraph
\* separators, U+202F, U+205F, U+3000 and the byte order mark (U+FEFF)
WhiteSpace ==
  {"\t", "\n", "", "\f", "\r", " ", " ", " ",
   "U+2000", "U+2001", "U+2002", "U+2003", "U+2004", "U+2005", "U+2006",
   "U+2007", "U+2008", "U+2009", "U+200A", "U+2028", "U+2029", "U+202F",
   "U+205F", "U+3000", "﻿"}

Digits == {"0", "1", "2", "3", "4", "5", "6", "7", "8", "9"}

\* [a-zA-Z_]
IdentStart ==
  {"a", "b", "c", "d", "e", "f", "g", "h", "i", "j", "k", "l", "m",
   "n", "o", "p", "q", "r", "s", "t", "u", "v", "w", "x", "y", "z",
   "A", "B", "C", "D", "E", "F", "G", "H", "I", "J", "K", "L", "M",
   "N", "O", "P", "Q", "R", "S", "T", "U", "V", "W", "X", "Y", "Z", "_"}

\* [a-zA-Z0-9_]
IdentPart == IdentStart \cup Digits

\* first index >= i of s whose character is not in S (Len(s) + 1 if none)
RECURSIVE RunEnd(_, _, _)
RunEnd(s, i, S) ==
  IF i <= Len(s) /\ s[i] \in S THEN RunEnd(s, i + 1, S) ELSE i

\* first index >= i of s holding character c, or 0
RECURSIVE IndexOf(_, _, _)
IndexOf(s, i, c) ==
  IF i > Len(s) THEN 0
  ELSE IF s[i] = c THEN i
  ELSE IndexOf(s, i + 1, c)

\* the concatenation of a sequence of sequences
RECURSIVE Flatten(_)
Flatten(ss) == IF ss = <<>> THEN <<>> ELSE Head(ss) \o Flatten(Tail(ss))

(***************************************************************************)
(* The regular expression matched by executeTask (line 45): group 1 is    *)
(* the longest prefix without "(", which must not be empty;                *)
(* the rest is either empty (group 2 undefined) or "(" group2 ")" up to    *)
(* the end of the string, group 2 holding no line terminator.              *)
(***************************************************************************)
\* the pattern without its end anchor: a "(" that opens no closed argument
\* list ends the name and the rest is left unread
MatchTargetAs(s) ==
  LET k == IndexOf(s, 1, "(")
  IN  IF Len(s) = 0 \/ k = 1
        THEN [matched |-> FALSE, methodName |-> <<>>, hasParams |-> FALSE, paramsStr |-> <<>>]
      ELSE IF k = 0
        THEN [matched |-> TRUE, methodName |-> s, hasParams |-> FALSE, paramsStr |-> <<>>]
      ELSE IF s[Len(s)] = ")"
        THEN [matched |-> TRUE, methodName |-> SubSeq(s, 1, k - 1),
              hasParams |-> TRUE, paramsStr |-> SubSeq(s, k + 1, Len(s) - 1)]
      ELSE [matched |-> TRUE, methodName |-> SubSeq(s, 1, k - 1),
            hasParams |-> FALSE, paramsStr |-> <<>>]

MatchTarget(s) ==
  LET k == IndexOf(s, 1, "(")
      n == Len(s)
  IN  IF n = 0 THEN [matched |-> FALSE, methodName |-> <<>>, hasParams |-> FALSE, paramsStr |-> <<>>]
      ELSE IF k = 0
        THEN [matched |-> TRUE, methodName |-> s, hasParams |-> FALSE, paramsStr |-> <<>>]
      ELSE IF /\ k > 1
              /\ n > k
              /\ s[n] = ")"
              /\ \A j \in (k + 1)..(n - 1) : s[j] \notin LineTerminators
        THEN [matched |-> TRUE, methodName |-> SubSeq(s, 1, k - 1),
              hasParams |-> TRUE, paramsStr |-> SubSeq(s, k + 1, n - 1)]
      ELSE [matched |-> FALSE, methodName |-> <<>>, hasParams |-> FALSE, paramsStr |-> <<>>]

(***************************************************************************)
(* parseParams, the two replace calls.                                     *)
(***************************************************************************)
\* the global replace of line 89: every single quote becomes a double quote
ReplaceQuotes(s) == [i \in 1..Len(s) |-> IF s[i] = SQ THEN DQ ELSE s[i]]

\* where a match of the key pattern of line 91 (one of "{" ",", white space,
\* an identifier, white space, ":") starting at i ends (the index of its
\* ":"), or 0 when there is no match at i
KeyMatchEnd(s, i) ==
  IF s[i] \notin {"{", ","} THEN 0
  ELSE LET a == RunEnd(s, i + 1, WhiteSpace)
       IN  IF a > Len(s) \/ s[a] \notin IdentStart THEN 0
           ELSE LET b == RunEnd(s, a + 1, IdentPart)
                    c == RunEnd(s, b, WhiteSpace)
                IN  IF c <= Len(s) /\ s[c] = ":" THEN c ELSE 0

\* the global replace of line 91 from index i on: each match keeps its first
\* group, puts the identifier in double quotes and drops the white space
\* before the ":"
RECURSIVE QuoteKeysFrom(_, _)
QuoteKeysFrom(s, i) ==
  IF i > Len(s) THEN <<>>
  ELSE LET m == KeyMatchEnd(s, i)
       IN  IF m = 0 THEN <<s[i]>> \o QuoteKeysFrom(s, i + 1)
           ELSE LET a == RunEnd(s, i + 1, WhiteSpace)
                    b == RunEnd(s, a + 1, IdentPart)
                IN  SubSeq(s, i, a - 1) \o <<DQ>> \o SubSeq(s, a, b - 1)
                      \o <<DQ, ":">> \o QuoteKeysFrom(s, m + 1)

QuoteKeys(s) == QuoteKeysFrom(s, 1)

\* normalizedStr
Normalize(paramsStr) == QuoteKeys(ReplaceQuotes(paramsStr))

(***************************************************************************)
(* parseParams, line 94: the normalized text is put between "return [" and *)
(* "]" and run as the body of a function.  Eval reads that body in this    *)
(* part of the language:                                                   *)
(*   - strings in single or double quotes, with the escapes of one         *)
(*     character, the line continuation, and the escapes \x and \u of a    *)
(*     printable ASCII character;                                          *)
(*   - numbers: decimal with a fraction and an exponent, hexadecimal,      *)
(*     octal, binary and legacy octal, "_" between digits, and a "-" or a  *)
(*     "+" before a number;                                                *)
(*   - true, false, null, undefined, NaN, Infinity, and the identifiers    *)
(*     of Unbound, which are a ReferenceError where they are evaluated;    *)
(*   - arrays, with elisions and a trailing comma, and the element of an   *)
(*     array at an index;                                                  *)
(*   - object literals: identifier, string, number and computed keys,      *)
(*     shorthand properties, __proto__ : value, a trailing comma;          *)
(*   - parentheses, the comma operator, and calls of a value, none of      *)
(*     which is a function: a TypeError once the arguments are evaluated;  *)
(*   - name = value for a name of Unbound: outside strict mode the         *)
(*     assignment makes the name a property of the global object, which    *)
(*     later bodies read;                                                  *)
(*   - (()=>{throw value})(), written so: the body raises the value;       *)
(*   - ";", blocks, labels and automatic semicolon insertion: the text may *)
(*     close the array early, and then the value returned is that of the   *)
(*     first statement, whatever its type, and the statements after it are *)
(*     only parsed, never run.                                             *)
(* A body that is ill-formed is a SyntaxError, raised before any of it     *)
(* runs; a ReferenceError, a TypeError and a raised value end the run      *)
(* where they happen.  A body that holds anything else has the outcome     *)
(* "outside": nothing is said of what the program does with it.  That is   *)
(* the case of the other escapes \x and \u, the escapes \1 to \9, the     *)
(* other operators, "/", back quotes, a "." that is not in a number,       *)
(* BigInt literals, numbers of 16 significant digits or more or beyond     *)
(* 10^300 or 2^53, letters outside ASCII, the words of Keywords, any other *)
(* identifier where it is evaluated, method definitions, any other         *)
(* function, any other assignment, an object that inherits from an array   *)
(* and has a length or an index in its prototype chain, where it is made   *)
(* a string, and a property of a value other than the element of an array  *)
(* at an index.                                                            *)
(***************************************************************************)
\* the characters that start an identifier of the language, and continue it
JSIdentStart == IdentStart \cup {"$"}
JSIdentPart == IdentPart \cup {"$"}

OctalDigits == {"0", "1", "2", "3", "4", "5", "6", "7"}

BinaryDigits == {"0", "1"}

LowerHex == <<"a", "b", "c", "d", "e", "f">>
UpperHex == <<"A", "B", "C", "D", "E", "F">>

HexDigits ==
  Digits \cup {LowerHex[n] : n \in 1..Len(LowerHex)}
         \cup {UpperHex[n] : n \in 1..Len(UpperHex)}

\* the value of one digit
DigitVal(c) ==
  IF c \in Digits THEN CHOOSE n \in 0..9 : ToString(n) = c
  ELSE 9 + CHOOSE n \in 1..Len(LowerHex) : c \in {LowerHex[n], UpperHex[n]}

\* the value of the digit run s[i..j], read in the given base
RECURSIVE DigitsVal(_, _, _, _)
DigitsVal(s, i, j, base) ==
  IF j < i THEN 0 ELSE DigitsVal(s, i, j - 1, base) * base + DigitVal(s[j])

\* the decimal digits of n, as text
RECURSIVE NumChars(_)
NumChars(n) ==
  IF n < 10 THEN <<ToString(n)>> ELSE NumChars(n \div 10) \o <<ToString(n % 10)>>

\* d without its leading zeros (one digit is kept)
RECURSIVE StripLeft(_)
StripLeft(d) == IF Len(d) > 1 /\ d[1] = "0" THEN StripLeft(Tail(d)) ELSE d

\* d without its trailing zeros
RECURSIVE StripRight(_)
StripRight(d) ==
  IF d /= <<>> /\ d[Len(d)] = "0" THEN StripRight(SubSeq(d, 1, Len(d) - 1)) ELSE d

\* d without the separators between its digits
Unsep(d) == SelectSeq(d, LAMBDA c : c /= "_")

\* the decimal digits of d * base + carry, d being the decimal digits of a
\* number of any size (none for 0)
RECURSIVE MulAdd(_, _, _)
MulAdd(d, base, carry) ==
  IF d = <<>> THEN (IF carry = 0 THEN <<>> ELSE NumChars(carry))
  ELSE MulAdd(SubSeq(d, 1, Len(d) - 1), base,
              (DigitVal(d[Len(d)]) * base + carry) \div 10)
         \o <<ToString((DigitVal(d[Len(d)]) * base + carry) % 10)>>

\* the decimal digits of the number written with the digits ds in the given
\* base, acc being the decimal digits of what was read before them
RECURSIVE RadixText(_, _, _)
RadixText(ds, base, acc) ==
  IF ds = <<>> THEN acc
  ELSE RadixText(Tail(ds), base, MulAdd(acc, base, DigitVal(Head(ds))))

\* the index after the digits of S that start at s[i], single "_" between
\* two digits included
RECURSIVE SepRunEnd(_, _, _)
SepRunEnd(s, i, S) ==
  IF i + 1 <= Len(s) /\ s[i + 1] \in S THEN SepRunEnd(s, i + 1, S)
  ELSE IF i + 2 <= Len(s) /\ s[i + 1] = "_" /\ s[i + 2] \in S
    THEN SepRunEnd(s, i + 2, S)
  ELSE i + 1

\* the base the numeric literal at s[i] is written in
Radix(s, i) ==
  IF s[i] /= "0" \/ i = Len(s) THEN 10
  ELSE IF s[i + 1] \in {"x", "X"} THEN 16
  ELSE IF s[i + 1] \in {"o", "O"} THEN 8
  ELSE IF s[i + 1] \in {"b", "B"} THEN 2
  ELSE 10

RadixDigits(base) ==
  IF base = 16 THEN HexDigits ELSE IF base = 8 THEN OctalDigits ELSE BinaryDigits

\* the numeric literal at s[i] starts with 0 and another digit: a legacy
\* octal literal, or (a digit 8 or 9 in it) a decimal one
LeadingZero(s, i) == s[i] = "0" /\ i < Len(s) /\ s[i + 1] \in Digits

\* the numeric literal at s[i] is a legacy octal literal
LegacyOctal(s, i) ==
  /\ LeadingZero(s, i)
  /\ \A k \in i..(RunEnd(s, i, Digits) - 1) : s[k] \in OctalDigits

\* the index after the integer part of the decimal literal at s[i]
IntegerEnd(s, i) ==
  IF s[i] = "." THEN i
  ELSE IF LeadingZero(s, i) THEN RunEnd(s, i, Digits)
  ELSE IF s[i] = "0" THEN i + 1
  ELSE SepRunEnd(s, i, Digits)

\* the index after the fraction of the decimal literal at s[i] whose integer
\* part ends before s[e]
FractionEndFrom(s, i, e) ==
  IF e > Len(s) \/ s[e] /= "." \/ LegacyOctal(s, i) THEN e
  ELSE IF e < Len(s) /\ s[e + 1] \in Digits THEN SepRunEnd(s, e + 1, Digits)
  ELSE e + 1

\* the index of the first digit of the exponent that starts at s[f]
ExponentDigits(s, f) ==
  IF f < Len(s) /\ s[f + 1] \in {"+", "-"} THEN f + 2 ELSE f + 1

\* the index after the exponent of the decimal literal at s[i] whose fraction
\* ends before s[f], or 0 when an exponent starts there and has no digit
ExponentEndFrom(s, i, f) ==
  IF f > Len(s) \/ s[f] \notin {"e", "E"} \/ LegacyOctal(s, i) THEN f
  ELSE IF ExponentDigits(s, f) <= Len(s) /\ s[ExponentDigits(s, f)] \in Digits
    THEN SepRunEnd(s, ExponentDigits(s, f), Digits)
  ELSE 0

\* the index after the digits of the numeric literal at s[i], or 0 when it
\* has none where it needs one
LiteralEnd(s, i) ==
  IF Radix(s, i) = 10
    THEN ExponentEndFrom(s, i, FractionEndFrom(s, i, IntegerEnd(s, i)))
  ELSE IF i + 2 <= Len(s) /\ s[i + 2] \in RadixDigits(Radix(s, i))
    THEN SepRunEnd(s, i + 2, RadixDigits(Radix(s, i)))
  ELSE 0

\* s[i] starts a numeric literal
NumberStart(s, i) ==
  s[i] \in Digits \/ (s[i] = "." /\ i < Len(s) /\ s[i + 1] \in Digits)

\* the digits s[i..e-1] are those of an integer without a leading zero, which
\* the suffix n makes a BigInt
IntegerForm(s, i, e) ==
  \/ Radix(s, i) /= 10
  \/ /\ ~LeadingZero(s, i)
     /\ \A k \in i..(e - 1) : s[k] \in Digits \cup {"_"}

\* the index after the numeric literal at s[i] whose digits end before s[e],
\* its suffix n included; 0 when e is 0 or when an identifier character or a
\* digit follows the literal directly
NotBeforeIdent(s, i, e) ==
  IF e = 0 \/ e > Len(s) THEN e
  ELSE IF /\ s[e] = "n"
          /\ IntegerForm(s, i, e)
          /\ (e = Len(s) \/ s[e + 1] \notin JSIdentPart) THEN e + 1
  ELSE IF s[e] \in JSIdentPart THEN 0
  ELSE e

\* the index after the numeric literal that starts at s[i], or 0 when it is
\* ill-formed
NumberEnd(s, i) == NotBeforeIdent(s, i, LiteralEnd(s, i))

\* 2^53: the integers up to it are numbers of the language
MaxExact ==
  <<"9", "0", "0", "7", "1", "9", "9", "2", "5", "4", "7", "4", "0", "9", "9", "2">>

\* a < b, for two numbers written without leading zeros
DigitsLess(a, b) ==
  \/ Len(a) < Len(b)
  \/ /\ Len(a) = Len(b)
     /\ \E j \in 1..Len(a) :
          /\ \A m \in 1..(j - 1) : a[m] = b[m]
          /\ DigitVal(a[j]) < DigitVal(b[j])

\* Number.prototype.toString of the number 0.d * 10^n, d being its digits
\* without leading and trailing zeros (none for 0)
NumberString(d, n) ==
  IF d = <<>> THEN <<"0">>
  ELSE IF Len(d) <= n /\ n <= 21 THEN d \o [j \in 1..(n - Len(d)) |-> "0"]
  ELSE IF 0 < n /\ n <= 21
    THEN SubSeq(d, 1, n) \o <<".">> \o SubSeq(d, n + 1, Len(d))
  ELSE IF -6 < n /\ n <= 0 THEN <<"0", ".">> \o [j \in 1..(-n) |-> "0"] \o d
  ELSE <<d[1]>> \o (IF Len(d) = 1 THEN <<>> ELSE <<".">> \o Tail(d))
         \o <<"e", IF n > 0 THEN "+" ELSE "-">>
         \o NumChars(IF n > 0 THEN n - 1 ELSE 1 - n)

\* the integer whose decimal digits are t (none for 0): the text of its
\* value, and whether it is outside the part read, being above 2^53
IntegerValue(t) ==
  [out |-> DigitsLess(MaxExact, t), text |-> IF t = <<>> THEN <<"0">> ELSE t]

\* the decimal literal with the integer digits int, the fraction digits frac
\* and the exponent x written with the digits exp: it is the number
\* 0.d * 10^n; outside are 16 digits and more, and what is not between
\* 10^-300 and 10^300
DecimalOf(int, frac, exp, x, sep) ==
  LET lz == RunEnd(int \o frac, 1, {"0"}) - 1
      d == StripRight(SubSeq(int \o frac, lz + 1, Len(int) + Len(frac)))
  IN  [out |-> \/ Len(d) >= Len(MaxExact)
               \/ Len(exp) > 3
               \/ d /= <<>> /\ (Len(int) - lz + x) \notin (-300)..300
               \/ sep,
       text |-> NumberString(d, Len(int) - lz + x)]

\* the decimal literal s[i..e-1], ie being the index after its integer part
\* and fe the index after its fraction
DecimalValue(s, i, ie, fe, e) ==
  LET exp == IF fe < e
               THEN StripLeft(Unsep(SubSeq(s, ExponentDigits(s, fe), e - 1)))
               ELSE <<"0">>
      x == IF Len(exp) > 3 THEN 0
           ELSE IF s[ExponentDigits(s, fe) - 1] = "-"
             THEN 0 - DigitsVal(exp, 1, Len(exp), 10)
           ELSE DigitsVal(exp, 1, Len(exp), 10)
  IN  DecimalOf(Unsep(SubSeq(s, i, ie - 1)),
                IF fe > ie + 1 THEN Unsep(SubSeq(s, ie + 1, fe - 1)) ELSE <<>>,
                exp, x,
                LeadingZero(s, i) /\ \E k \in i..(e - 1) : s[k] = "_")

\* the numeric literal s[i..e-1]: the text of its value (for a number), and
\* whether it is outside the part read
NumberValue(s, i, e) ==
  IF s[e - 1] = "n" THEN [out |-> TRUE, text |-> <<>>]
  ELSE IF Radix(s, i) /= 10 THEN
    IntegerValue(RadixText(StripLeft(Unsep(SubSeq(s, i + 2, e - 1))), Radix(s, i), <<>>))
  ELSE IF LegacyOctal(s, i) THEN
    IntegerValue(RadixText(StripLeft(SubSeq(s, i, e - 1)), 8, <<>>))
  ELSE DecimalValue(s, i, IntegerEnd(s, i),
                    FractionEndFrom(s, i, IntegerEnd(s, i)), e)

\* the text of the value of the numeric literal s[i..e-1]
NumberText(s, i, e) == NumberValue(s, i, e).text

EncString(chars) == <<"str">> \o chars \o <<"/str">>
\* a number, by the text of its value
EncNumber(chars) == <<"num">> \o chars \o <<"/num">>
EncTrue == <<"true">>
EncFalse == <<"false">>
EncNull == <<"null">>
EncUndefined == <<"undefined">>
\* an elided array element
EncHole == <<"hole">>
EncArray(elems) == <<"arr">> \o Flatten(elems) \o <<"/arr">>
\* an object, by its own properties in the order they are enumerated in
EncObject(props) ==
  <<"obj">>
    \o Flatten([i \in 1..Len(props) |->
                  (<<"key">> \o props[i].k \o <<"/key">>) \o props[i].v])
    \o <<"/obj">>

\* the largest array index, 2^32 - 2
MaxIndex == <<"4", "2", "9", "4", "9", "6", "7", "2", "9", "4">>

\* the property name is an array index: such properties are enumerated
\* first, in ascending order
IsIndex(k) ==
  /\ k /= <<>>
  /\ \A j \in 1..Len(k) : k[j] \in Digits
  /\ Len(k) = 1 \/ k[1] /= "0"
  /\ ~DigitsLess(MaxIndex, k)

\* whether the new key k is enumerated before the key h an object has
KeyBefore(k, h) == IsIndex(k) /\ (~IsIndex(h) \/ DigitsLess(k, h))

\* an object's properties, in enumeration order, after key := value: a key
\* already present keeps its place and takes the new value, a new index is
\* put among the indices and any other new key at the end
RECURSIVE PutProp(_, _, _)
PutProp(props, k, v) ==
  IF props = <<>> THEN <<[k |-> k, v |-> v]>>
  ELSE IF Head(props).k = k THEN <<[k |-> k, v |-> v]>> \o Tail(props)
  ELSE IF KeyBefore(k, Head(props).k) THEN <<[k |-> k, v |-> v]>> \o props
  ELSE <<Head(props)>> \o PutProp(Tail(props), k, v)

\* names the language gives a meaning
TrueName == <<"t", "r", "u", "e">>
FalseName == <<"f", "a", "l", "s", "e">>
NullName == <<"n", "u", "l", "l">>
UndefinedName == <<"u", "n", "d", "e", "f", "i", "n", "e", "d">>
NaNName == <<"N", "a", "N">>
InfinityName == <<"I", "n", "f", "i", "n", "i", "t", "y">>
ProtoName == <<"_", "_", "p", "r", "o", "t", "o", "_", "_">>

\* the reserved words that are values
ReservedNames == {TrueName, FalseName, NullName}

\* the other words the language reserves or gives a meaning in some place: a
\* body that holds one is outside the part read
Keywords ==
  { <<"b", "r", "e", "a", "k">>,
    <<"c", "a", "s", "e">>,
    <<"c", "a", "t", "c", "h">>,
    <<"c", "l", "a", "s", "s">>,
    <<"c", "o", "n", "s", "t">>,
    <<"c", "o", "n", "t", "i", "n", "u", "e">>,
    <<"d", "e", "b", "u", "g", "g", "e", "r">>,
    <<"d", "e", "f", "a", "u", "l", "t">>,
    <<"d", "e", "l", "e", "t", "e">>,
    <<"d", "o">>,
    <<"e", "l", "s", "e">>,
    <<"e", "n", "u", "m">>,
    <<"e", "x", "p", "o", "r", "t">>,
    <<"e", "x", "t", "e", "n", "d", "s">>,
    <<"f", "i", "n", "a", "l", "l", "y">>,
    <<"f", "o", "r">>,
    <<"f", "u", "n", "c", "t", "i", "o", "n">>,
    <<"i", "f">>,
    <<"i", "m", "p", "o", "r", "t">>,
    <<"i", "n">>,
    <<"i", "n", "s", "t", "a", "n", "c", "e", "o", "f">>,
    <<"n", "e", "w">>,
    <<"r", "e", "t", "u", "r", "n">>,
    <<"s", "u", "p", "e", "r">>,
    <<"s", "w", "i", "t", "c", "h">>,
    <<"t", "h", "i", "s">>,
    <<"t", "h", "r", "o", "w">>,
    <<"t", "r", "y">>,
    <<"t", "y", "p", "e", "o", "f">>,
    <<"v", "a", "r">>,
    <<"v", "o", "i", "d">>,
    <<"w", "h", "i", "l", "e">>,
    <<"w", "i", "t", "h">>,
    <<"y", "i", "e", "l", "d">>,
    <<"l", "e", "t">>,
    <<"s", "t", "a", "t", "i", "c">>,
    <<"i", "m", "p", "l", "e", "m", "e", "n", "t", "s">>,
    <<"i", "n", "t", "e", "r", "f", "a", "c", "e">>,
    <<"p", "a", "c", "k", "a", "g", "e">>,
    <<"p", "r", "i", "v", "a", "t", "e">>,
    <<"p", "r", "o", "t", "e", "c", "t", "e", "d">>,
    <<"p", "u", "b", "l", "i", "c">>,
    <<"a", "w", "a", "i", "t">>,
    <<"a", "s", "y", "n", "c">>,
    <<"o", "f">>,
    <<"g", "e", "t">>,
    <<"s", "e", "t">> }

\* The global scope of the process is not in the source.  These names are
\* taken to have no binding in it when the process starts: oops, and the
\* names written with these letters and with digits.
OopsName == <<"o", "o", "p", "s">>

UnboundLetters == {"a", "b", "c", "x", "y", "z"}

Unbound(name) ==
  \/ name = OopsName
  \/ \A j \in 1..Len(name) : name[j] \in UnboundLetters \cup Digits

\* A value: its kind ("str", "num", "true", "false", "null", "undefined",
\* "arr" or "obj"; "hole" for an elided element), its encoding, the
\* elements of an array, values themselves, and of an object its own
\* properties and its prototype: proto is empty when that is
\* Object.prototype, and else holds the value __proto__ : value gave it,
\* null, an object or an array of the text.
Value(kind, enc, elems) ==
  [kind |-> kind, enc |-> enc, elems |-> elems, props |-> <<>>, proto |-> <<>>]

Undefined == Value("undefined", EncUndefined, <<>>)

Hole == Value("hole", EncHole, <<>>)

\* the number whose value has the text chars
NumberOf(chars) == Value("num", EncNumber(chars), <<>>)

ArrayValue(elems) ==
  Value("arr", EncArray([j \in 1..Len(elems) |-> elems[j].enc]), elems)

ObjectValue(props, proto) ==
  [Value("obj", EncObject(props), <<>>) EXCEPT !.props = props, !.proto = proto]

\* The reading of a function body: done tells whether it ended, and then
\* ok whether it returned (the value last), out whether it is outside the
\* part read, and single whether the body is the one array literal and
\* nothing else; when it neither returned nor is outside, err tells what
\* was raised: "syntax" (the body is ill-formed, a SyntaxError), "error" (a
\* ReferenceError, a TypeError, or a raised value other than null and
\* undefined) or "nullish" (null or undefined was raised).  Before the end,
\* what is next is read from index i on; stack holds what is open, the
\* statement list of the body first; mode is "stmt" (a statement is
\* expected), "val" (an expression is expected), "sep" (the value last has
\* just been read) or "key" (a property key is expected).  env is the
\* global scope, the names assigned so far with their values, and set the
\* assignment the step made.
Threw ==
  [done |-> TRUE, ok |-> FALSE, out |-> FALSE, err |-> "syntax", i |-> 0,
   stack |-> <<>>, mode |-> "", last |-> Undefined, single |-> FALSE,
   env |-> <<>>, set |-> <<>>]

\* the run raised the value v
Raised(v) ==
  [Threw EXCEPT !.err = IF v.kind \in {"null", "undefined"} THEN "nullish" ELSE "error"]

\* the run raised a ReferenceError or a TypeError
RaisedError == [Threw EXCEPT !.err = "error"]

Outside ==
  [done |-> TRUE, ok |-> FALSE, out |-> TRUE, err |-> "", i |-> 0,
   stack |-> <<>>, mode |-> "", last |-> Undefined, single |-> FALSE,
   env |-> <<>>, set |-> <<>>]

Got(v, single) ==
  [done |-> TRUE, ok |-> TRUE, out |-> FALSE, err |-> "", i |-> 0,
   stack |-> <<>>, mode |-> "", last |-> v, single |-> single,
   env |-> <<>>, set |-> <<>>]

Go(i, stack, mode, last) ==
  [done |-> FALSE, ok |-> TRUE, out |-> FALSE, err |-> "", i |-> i,
   stack |-> stack, mode |-> mode, last |-> last, single |-> FALSE,
   env |-> <<>>, set |-> <<>>]

\* the value an identifier, read as an expression, evaluates to in the
\* global scope env: a name of Unbound is a ReferenceError until it is
\* assigned
IdentValue(name, env) ==
  IF name = TrueName THEN Got(Value("true", EncTrue, <<>>), FALSE)
  ELSE IF name = FalseName THEN Got(Value("false", EncFalse, <<>>), FALSE)
  ELSE IF name = NullName THEN Got(Value("null", EncNull, <<>>), FALSE)
  ELSE IF name = UndefinedName THEN Got(Undefined, FALSE)
  ELSE IF name \in {NaNName, InfinityName} THEN Got(NumberOf(name), FALSE)
  ELSE IF Unbound(name) THEN
    IF \E j \in 1..Len(env) : env[j].k = name
      THEN Got(env[CHOOSE j \in 1..Len(env) : env[j].k = name].v, FALSE)
      ELSE RaisedError
  ELSE Outside

\* what Object.prototype.toString gives for an object of the text
ObjectString ==
  <<"[", "o", "b", "j", "e", "c", "t", " ", "O", "b", "j", "e", "c", "t", "]">>

ToStringName == <<"t", "o", "S", "t", "r", "i", "n", "g">>

\* what making a value a string gave: the string text, or (st) it "threw"
\* or is "out", outside the part read
KeyText(text) == [st |-> "ok", text |-> text]

\* the prototype chain of the object v: keys are the names of the own
\* properties of v and of the objects the chain goes through, and end is
\* where the chain ends, at Object.prototype ("std"), at null, or at an
\* array ("arr"), whose elements are elems
RECURSIVE Chain(_)
Chain(v) ==
  LET own == {v.props[j].k : j \in 1..Len(v.props)}
  IN  IF v.proto = <<>> THEN [keys |-> own, end |-> "std", elems |-> <<>>]
      ELSE IF v.proto[1].kind = "obj"
        THEN [Chain(v.proto[1]) EXCEPT !.keys = @ \cup own]
      ELSE [keys |-> own, end |-> v.proto[1].kind, elems |-> v.proto[1].elems]

\* ToPropertyKey: the property name the value v stands for as a computed
\* key or as an index, the value as a string.  An object is made a string
\* by the toString its prototype chain gives.  A toString found in an
\* object of the chain is no function in the part read, and then valueOf
\* is none either or returns the object itself: a TypeError, as it is for
\* a chain that ends at null, which gives neither.  A chain that ends at
\* Object.prototype gives "[object Object]".  A chain that ends at an
\* array gives Array.prototype.toString: it joins the elements the object
\* inherits, unless a join found in the chain is no function, which gives
\* "[object Object]"; a length or an index among the properties of the
\* chain is outside the part read.  An array is its elements as strings,
\* made in order, with "," between them, null, undefined and an elided
\* element being empty there.
RECURSIVE PropertyKey(_), JoinKeys(_, _)
PropertyKey(v) ==
  IF v.enc = EncNumber(<<"-", "0">>) THEN KeyText(<<"0">>)
  ELSE IF v.kind \in {"str", "num"} THEN KeyText(SubSeq(v.enc, 2, Len(v.enc) - 1))
  ELSE IF v.kind = "true" THEN KeyText(TrueName)
  ELSE IF v.kind = "false" THEN KeyText(FalseName)
  ELSE IF v.kind = "null" THEN KeyText(NullName)
  ELSE IF v.kind = "obj" THEN
    LET c == Chain(v)
    IN  IF ToStringName \in c.keys \/ c.end = "null"
          THEN [st |-> "threw", text |-> <<>>]
        ELSE IF c.end = "std" \/ <<"j", "o", "i", "n">> \in c.keys
          THEN KeyText(ObjectString)
        ELSE IF \E k \in c.keys :
                  \/ k = <<"l", "e", "n", "g", "t", "h">>
                  \/ k /= <<>> /\ \A j \in 1..Len(k) : k[j] \in Digits
          THEN [st |-> "out", text |-> <<>>]
        ELSE JoinKeys(c.elems, 1)
  ELSE IF v.kind = "arr" THEN JoinKeys(v.elems, 1)
  ELSE KeyText(UndefinedName)

\* Array.prototype.join from the element j on
JoinKeys(elems, j) ==
  IF j > Len(elems) THEN KeyText(<<>>)
  ELSE LET h == IF elems[j].kind \in {"null", "undefined", "hole"}
                  THEN KeyText(<<>>)
                  ELSE PropertyKey(elems[j])
           t == JoinKeys(elems, j + 1)
       IN  IF h.st /= "ok" THEN h
           ELSE IF t.st /= "ok" THEN t
           ELSE KeyText(h.text \o (IF j < Len(elems) THEN <<",">> ELSE <<>>) \o t.text)

\* What is open while the body is read.  kind is "ret" (the return
\* statement), "syn" (the return statement where the body is only parsed),
\* "tail" (the statements after it, value being what was returned), "blk"
\* (a block), "lbl" (a label, key being its name), "arr", "obj", "par" (a
\* parenthesis), "ckey" (the bracket of a computed key), "idx" (the bracket
\* of a property access, value being the value it is the property of),
\* "call" (an argument list), "asg" (the right side of an assignment, key
\* being the name assigned) or "throw" (the value of a throw statement).
\* elems are an array's elements so far, props an object's properties so far,
\* key the key whose value is being read, drop whether that key is a
\* __proto__ : value, which adds no property, proto whether the object had
\* one and base the prototype it has, single whether the return statement
\* is one array literal so far.
Frame(kind) ==
  [kind |-> kind, elems |-> <<>>, props |-> <<>>, key |-> <<>>,
   drop |-> FALSE, proto |-> FALSE, base |-> <<>>, value |-> Undefined,
   single |-> TRUE]

\* the frames statements are read in
Statements == {"ret", "syn", "tail", "blk"}

\* the printable characters of ASCII, from the code 32 on (the back quote
\* by its code point)
Ascii ==
  <<" ", "!", "\"", "#", "$", "%", "&", "'", "(", ")", "*", "+", ",", "-", ".", "/",
    "0", "1", "2", "3", "4", "5", "6", "7", "8", "9", ":", ";", "<", "=", ">", "?",
    "@", "A", "B", "C", "D", "E", "F", "G", "H", "I", "J", "K", "L", "M", "N", "O",
    "P", "Q", "R", "S", "T", "U", "V", "W", "X", "Y", "Z", "[", "\\", "]", "^", "_",
    "U+0060", "a", "b", "c", "d", "e", "f", "g", "h", "i", "j", "k", "l", "m", "n", "o",
    "p", "q", "r", "s", "t", "u", "v", "w", "x", "y", "z", "{", "|", "}", "~">>

\* the number of hexadecimal digits the escape at the backslash s[j] is
\* written with: two after \x, four after \u, none in any other escape
HexLen(s, j) ==
  IF s[j + 1] = "x" THEN 2
  ELSE IF s[j + 1] = "u" /\ (j + 2 > Len(s) \/ s[j + 2] /= "{") THEN 4
  ELSE 0

\* the escape at the backslash s[j] has the hexadecimal digits it needs
HexEscape(s, j) ==
  /\ j + 1 + HexLen(s, j) <= Len(s)
  /\ \A k \in (j + 2)..(j + 1 + HexLen(s, j)) : s[k] \in HexDigits

\* the code the escape \x or \u at the backslash s[j] is written with
HexCode(s, j) == DigitsVal(s, j + 2, j + 1 + HexLen(s, j), 16)

\* the index of the quote q that closes a string literal read from s[j] on,
\* or 0 when the line or the body ends before it, or an escape \x or \u
\* lacks a digit
RECURSIVE StringClose(_, _, _)
StringClose(s, j, q) ==
  IF j > Len(s) \/ s[j] \in {"\n", "\r"} THEN 0
  ELSE IF s[j] = q THEN j
  ELSE IF s[j] /= "\\" THEN StringClose(s, j + 1, q)
  ELSE IF j = Len(s) \/ ~HexEscape(s, j) THEN 0
  ELSE IF s[j + 1] = "\r" /\ j + 2 <= Len(s) /\ s[j + 2] = "\n"
    THEN StringClose(s, j + 3, q)
  ELSE StringClose(s, j + 2, q)

\* the index after the string literal that starts at s[i], or 0 when it is
\* not closed on the line
StringEnd(s, i) ==
  IF StringClose(s, i + 1, s[i]) = 0 THEN 0 ELSE StringClose(s, i + 1, s[i]) + 1

\* what the escape of the character c stands for, in a string
Escaped(c) ==
  IF c \in LineTerminators THEN <<>>
  ELSE IF c = "n" THEN <<"\n">>
  ELSE IF c = "t" THEN <<"\t">>
  ELSE IF c = "r" THEN <<"\r">>
  ELSE IF c = "f" THEN <<"\f">>
  ELSE IF c = "v" THEN <<"">>
  ELSE IF c = "b" THEN <<"U+0008">>
  ELSE IF c = "0" THEN <<"U+0000">>
  ELSE <<c>>

\* the escape at the backslash s[j] is outside the part read: \1 to \9, \0
\* before a digit, \u before a brace, and \x and \u of a code that is not
\* of a printable ASCII character
EscapeOut(s, j) ==
  \/ s[j + 1] \in Digits \ {"0"}
  \/ s[j + 1] = "0" /\ j + 2 <= Len(s) /\ s[j + 2] \in Digits
  \/ s[j + 1] = "u" /\ HexLen(s, j) = 0
  \/ HexLen(s, j) > 0 /\ HexCode(s, j) \notin 32..126

\* the index after the escape at the backslash s[j]
EscapeEnd(s, j) ==
  IF s[j + 1] = "\r" /\ j + 2 <= Len(s) /\ s[j + 2] = "\n" THEN j + 3
  ELSE j + 2 + HexLen(s, j)

\* the characters s[j..b] of a string literal hold an escape that is outside
\* the part read
RECURSIVE StringOut(_, _, _)
StringOut(s, j, b) ==
  IF j > b THEN FALSE
  ELSE IF s[j] /= "\\" THEN StringOut(s, j + 1, b)
  ELSE EscapeOut(s, j) \/ StringOut(s, EscapeEnd(s, j), b)

\* the string value of the characters s[j..b] of a string literal
RECURSIVE StringValue(_, _, _)
StringValue(s, j, b) ==
  IF j > b THEN <<>>
  ELSE IF s[j] /= "\\" THEN <<s[j]>> \o StringValue(s, j + 1, b)
  ELSE IF HexLen(s, j) > 0
    THEN <<Ascii[HexCode(s, j) - 31]>> \o StringValue(s, EscapeEnd(s, j), b)
  ELSE IF EscapeEnd(s, j) = j + 3 THEN StringValue(s, j + 3, b)
  ELSE Escaped(s[j + 1]) \o StringValue(s, j + 2, b)

\* the index after the property key that starts at s[i], or 0 when s[i]
\* starts no key
KeyEnd(s, i) ==
  IF s[i] \in JSIdentStart THEN RunEnd(s, i, JSIdentPart)
  ELSE IF NumberStart(s, i) THEN NumberEnd(s, i)
  ELSE IF s[i] \in {SQ, DQ} THEN StringEnd(s, i)
  ELSE 0

\* the property name the key s[i..e-1] stands for
KeyName(s, i, e) ==
  IF s[i] \in JSIdentStart THEN SubSeq(s, i, e - 1)
  ELSE IF s[i] \in {SQ, DQ} THEN StringValue(s, i + 1, e - 2)
  ELSE NumberText(s, i, e)

\* the key s[i..e-1], followed by ":", sets the prototype
IsProtoKey(s, i, e) ==
  (s[i] \in JSIdentStart \/ s[i] \in {SQ, DQ}) /\ KeyName(s, i, e) = ProtoName

\* the characters the part read has besides white space, quotes, digits and
\* identifiers
Punctuators == {"[", "]", "{", "}", "(", ")", ",", ":", ";", "-", "+", "="}

\* the function that raises a value where it is called: the text before
\* the value, and the text after it
ThrowOpen == <<"(", "(", ")", "=", ">", "{", "t", "h", "r", "o", "w", " ">>
ThrowClose == <<"}", ")", "(", ")">>

\* the text t is in s at the index i
TextAt(s, i, t) == i + Len(t) - 1 <= Len(s) /\ SubSeq(s, i, i + Len(t) - 1) = t

\* the token at s[i]: the index after it (0 when it is ill-formed, a
\* SyntaxError), and whether it is outside the part read
TokenAt(s, i) ==
  IF TextAt(s, i, ThrowOpen) THEN [end |-> i + Len(ThrowOpen), out |-> FALSE]
  ELSE IF s[i] = "=" THEN
    \* an assignment, and not ==, === or =>
    [end |-> i + 1, out |-> i < Len(s) /\ s[i + 1] \in {"=", ">"}]
  ELSE IF s[i] \in WhiteSpace \cup Punctuators THEN [end |-> i + 1, out |-> FALSE]
  ELSE IF s[i] \in {SQ, DQ} THEN
    LET e == StringEnd(s, i)
    IN  [end |-> e, out |-> e /= 0 /\ StringOut(s, i + 1, e - 2)]
  ELSE IF NumberStart(s, i) THEN
    LET e == NumberEnd(s, i)
    IN  [end |-> e, out |-> e /= 0 /\ NumberValue(s, i, e).out]
  ELSE IF s[i] \in JSIdentStart THEN
    [end |-> RunEnd(s, i, JSIdentPart),
     out |-> SubSeq(s, i, RunEnd(s, i, JSIdentPart) - 1) \in Keywords]
  ELSE [end |-> 0, out |-> TRUE]

\* the body s holds, from s[i] on and before any ill-formed token, a token
\* that is outside the part read, prev telling what the token before s[i]
\* is: a "name", another token that ends a "value" (a string, a number, a
\* closing bracket), or any "other".  An "=" after anything but a name
\* assigns to a pattern or to a property; the text of ThrowOpen after a
\* name or a value is the parenthesis of a call whose first argument is a
\* function
RECURSIVE Foreign(_, _, _)
Foreign(s, i, prev) ==
  IF i > Len(s) THEN FALSE
  ELSE LET t == TokenAt(s, i)
       IN  IF t.out \/ (s[i] = "=" /\ prev /= "name") THEN TRUE
           ELSE IF TextAt(s, i, ThrowOpen) /\ prev /= "other" THEN TRUE
           ELSE IF t.end = 0 THEN FALSE
           ELSE Foreign(s, t.end,
                        IF s[i] \in WhiteSpace THEN prev
                        ELSE IF TextAt(s, i, ThrowOpen) THEN "other"
                        ELSE IF s[i] \in JSIdentStart THEN "name"
                        ELSE IF \/ s[i] \in {SQ, DQ, ")", "]", "}"}
                                \/ NumberStart(s, i) THEN "value"
                        ELSE "other")

\* the index of the ":" that makes the identifier at s[i] a label or a key,
\* or 0
ColonAfter(s, e) ==
  IF RunEnd(s, e, WhiteSpace) <= Len(s) /\ s[RunEnd(s, e, WhiteSpace)] = ":"
    THEN RunEnd(s, e, WhiteSpace)
    ELSE 0

\* the stack with its top frame replaced
SetTop(stack, frame) == [stack EXCEPT ![Len(stack)] = frame]

\* the stack without its top frame
Pop(stack) == SubSeq(stack, 1, Len(stack) - 1)

\* the stack without the labels on its top: the statement they label ended
RECURSIVE PopLabels(_)
PopLabels(stack) ==
  IF stack[Len(stack)].kind = "lbl" THEN PopLabels(Pop(stack)) ELSE stack

\* the stack after the expression statement of value last ended before the
\* end of the body, base being the stack without the labels on its top: what
\* a return statement returned is kept
EndStatement(base, last) ==
  IF base[1].kind \in {"ret", "syn"}
    THEN <<[base[1] EXCEPT !.kind = "tail", !.value = last, !.single = FALSE]>>
    ELSE base

\* the frame of an object after the property being read got the value
\* last: __proto__ : value makes an object, an array or null the prototype
\* and leaves it as it is for any other value
AddProp(frame, last) ==
  IF frame.drop THEN
    [frame EXCEPT !.base = IF last.kind \in {"obj", "arr", "null"} THEN <<last>>
                           ELSE @]
  ELSE [frame EXCEPT !.props = PutProp(@, frame.key, last.enc)]

\* the frame of an object whose key s[i..e-1] is about to get its value
WithKey(frame, s, i, e) ==
  [frame EXCEPT !.key = KeyName(s, i, e),
                !.drop = IsProtoKey(s, i, e),
                !.proto = @ \/ IsProtoKey(s, i, e)]

\* the stack is that of the return statement of a body that is run: what
\* is read is evaluated, and after it only parsed
Running(stack) == stack[1].kind = "ret"

\* a string literal s[i..e-1] (e = 0: it is not closed) was read
ValString(s, i, e, stack) ==
  IF e = 0 THEN Threw
  ELSE IF StringOut(s, i + 1, e - 2) THEN Outside
  ELSE Go(e, stack, "sep", Value("str", EncString(StringValue(s, i + 1, e - 2)), <<>>))

\* a numeric literal s[i..e-1] (e = 0: it is ill-formed) was read, after a
\* "-" when neg
ValNumber(s, i, e, stack, neg) ==
  IF e = 0 THEN Threw
  ELSE IF NumberValue(s, i, e).out THEN Outside
  ELSE Go(e, stack, "sep",
          NumberOf(IF neg THEN <<"-">> \o NumberText(s, i, e) ELSE NumberText(s, i, e)))

\* a "-" (neg) or a "+" was read where an expression is expected, s[j]
\* being what is next and e the index after the identifier at s[j]: before
\* a number, NaN or Infinity, "-" makes the number negative and "+" leaves
\* it as it is
Signed(s, j, e, stack, neg) ==
  IF j <= Len(s) /\ NumberStart(s, j)
    THEN ValNumber(s, j, NumberEnd(s, j), stack, neg)
  ELSE IF e > j /\ SubSeq(s, j, e - 1) = NaNName
    THEN Go(e, stack, "sep", NumberOf(NaNName))
  ELSE IF e > j /\ SubSeq(s, j, e - 1) = InfinityName
    THEN Go(e, stack, "sep",
            NumberOf(IF neg THEN <<"-">> \o InfinityName ELSE InfinityName))
  ELSE Outside

\* the identifier name, ending before s[e], was read as an expression, n
\* being the index of what is next and r the value of the identifier: before
\* an "=" the name is assigned the value that follows
ValIdent(s, e, n, name, r, stack) ==
  IF n <= Len(s) /\ s[n] = "=" THEN
    IF Unbound(name)
      THEN Go(n + 1, Append(stack, [Frame("asg") EXCEPT !.key = name]), "val", Undefined)
      ELSE Outside
  ELSE IF r.ok THEN Go(e, stack, "sep", r.last)
  ELSE IF Running(stack) THEN r
  ELSE Go(e, stack, "sep", Undefined)

\* the text ThrowOpen was read, n being the index of what is next: no line
\* terminator may stand between throw and its value
ValThrow(s, i, n, stack) ==
  IF \E k \in i..(n - 1) : s[k] \in LineTerminators THEN Threw
  ELSE Go(i, Append(stack, Frame("throw")), "val", Undefined)

\* an expression is expected at s[i]
StepVal(s, i, stack, top, last, env) ==
  IF TextAt(s, i, ThrowOpen) THEN
    ValThrow(s, i + Len(ThrowOpen), RunEnd(s, i + Len(ThrowOpen), WhiteSpace), stack)
  ELSE IF top.kind = "arr" /\ s[i] = "]" THEN
    \* an empty array, or the end of one after a trailing comma
    Go(i + 1, Pop(stack), "sep", ArrayValue(top.elems))
  ELSE IF top.kind = "arr" /\ s[i] = "," THEN
    \* an elision
    Go(i + 1, SetTop(stack, [top EXCEPT !.elems = Append(@, Hole)]), "val", last)
  ELSE IF top.kind = "call" /\ s[i] = ")" THEN
    \* no argument, or the end of the arguments after a trailing comma:
    \* what is called is no function, a TypeError
    IF Running(stack) THEN RaisedError
    ELSE Go(i + 1, Pop(stack), "sep", Undefined)
  ELSE IF s[i] \in {SQ, DQ} THEN ValString(s, i, StringEnd(s, i), stack)
  ELSE IF NumberStart(s, i) THEN ValNumber(s, i, NumberEnd(s, i), stack, FALSE)
  ELSE IF s[i] \in {"-", "+"} THEN
    Signed(s, RunEnd(s, i + 1, WhiteSpace),
           RunEnd(s, RunEnd(s, i + 1, WhiteSpace), JSIdentPart), stack, s[i] = "-")
  ELSE IF s[i] \in JSIdentStart THEN
    ValIdent(s, RunEnd(s, i, JSIdentPart),
             RunEnd(s, RunEnd(s, i, JSIdentPart), WhiteSpace),
             SubSeq(s, i, RunEnd(s, i, JSIdentPart) - 1),
             IdentValue(SubSeq(s, i, RunEnd(s, i, JSIdentPart) - 1), env), stack)
  ELSE IF s[i] = "[" THEN Go(i + 1, Append(stack, Frame("arr")), "val", last)
  ELSE IF s[i] = "{" THEN Go(i + 1, Append(stack, Frame("obj")), "key", last)
  ELSE IF s[i] = "(" THEN Go(i + 1, Append(stack, Frame("par")), "val", last)
  ELSE IF s[i] \in Punctuators THEN Threw
  ELSE Outside

\* the "]" of a computed key was read, c being the index of the ":" after
\* it (0: there is none), n the index of what is next, obj the frame of
\* the object and k the value last as a property key, which is made before
\* the value of the property is read
SepComputedKey(s, c, n, stack, obj, k) ==
  IF c = 0 THEN (IF n <= Len(s) /\ s[n] = "(" THEN Outside ELSE Threw)
  ELSE IF Running(stack) /\ k.st = "out" THEN Outside
  ELSE IF Running(stack) /\ k.st = "threw" THEN RaisedError
  ELSE Go(c + 1,
          SetTop(Pop(stack), [obj EXCEPT !.key = k.text, !.drop = FALSE]),
          "val", Undefined)

\* the element of an array at the index written k: undefined when the
\* array has none there
ElementAt(elems, k) ==
  IF Len(k) < 10 /\ DigitsVal(k, 1, Len(k), 10) < Len(elems)
       /\ elems[DigitsVal(k, 1, Len(k), 10) + 1].kind /= "hole"
    THEN elems[DigitsVal(k, 1, Len(k), 10) + 1]
    ELSE Undefined

\* the "]" of a property access was read where the body is evaluated, v
\* being the value and k the value between the brackets as a property key:
\* null and undefined have no property, a TypeError, and so is a key that
\* cannot be made a string
SepIndex(e, stack, v, k) ==
  IF k.st = "out" THEN Outside
  ELSE IF v.kind \in {"null", "undefined"} \/ k.st = "threw" THEN RaisedError
  ELSE IF v.kind = "arr" /\ IsIndex(k.text)
    THEN Go(e, stack, "sep", ElementAt(v.elems, k.text))
  ELSE Outside

\* the "}" after the value last of a throw statement was read at s[i]: where
\* the body is evaluated the function is called and raises the value
SepThrow(s, i, stack, last) ==
  IF ~TextAt(s, i, ThrowClose) THEN Outside
  ELSE IF Running(stack) THEN Raised(last)
  ELSE Go(i + Len(ThrowClose), Pop(stack), "sep", Undefined)

\* the value last has just been read and s[i] is next; newline tells
\* whether a line terminator lies between them, base is the stack without
\* the labels on its top
StepSep(s, i, stack, top, last, newline, base) ==
  IF s[i] = "," THEN
    IF top.kind = "arr" THEN
      Go(i + 1, SetTop(stack, [top EXCEPT !.elems = Append(@, last)]), "val", last)
    ELSE IF top.kind = "obj" THEN
      Go(i + 1, SetTop(stack, AddProp(top, last)), "key", last)
    ELSE IF top.kind = "ckey" THEN Threw
    ELSE IF top.kind = "ret" THEN
      \* the comma operator in the return statement
      Go(i + 1, SetTop(stack, [top EXCEPT !.single = FALSE]), "val", last)
    ELSE
      \* the comma operator (the value before it is dropped), or the next
      \* argument of a call
      Go(i + 1, stack, "val", last)
  ELSE IF s[i] = "]" THEN
    IF top.kind = "arr" THEN
      Go(i + 1, Pop(stack), "sep", ArrayValue(Append(top.elems, last)))
    ELSE IF top.kind = "idx" THEN
      IF Running(stack) THEN SepIndex(i + 1, Pop(stack), top.value, PropertyKey(last))
      ELSE Go(i + 1, Pop(stack), "sep", Undefined)
    ELSE IF top.kind = "ckey" THEN
      SepComputedKey(s, ColonAfter(s, i + 1), RunEnd(s, i + 1, WhiteSpace),
                     stack, stack[Len(stack) - 1], PropertyKey(last))
    ELSE Threw
  ELSE IF s[i] = "}" THEN
    IF top.kind = "obj" THEN
      Go(i + 1, Pop(stack), "sep",
         ObjectValue(AddProp(top, last).props, AddProp(top, last).base))
    ELSE IF top.kind = "throw" THEN SepThrow(s, i, stack, last)
    ELSE IF base[Len(base)].kind = "blk" THEN
      \* the end of a block ends the expression statement before it
      Go(i + 1, PopLabels(Pop(base)), "stmt", last)
    ELSE Threw
  ELSE IF s[i] = ")" THEN
    IF top.kind = "par" THEN Go(i + 1, Pop(stack), "sep", last)
    ELSE IF top.kind = "call" THEN
      \* the arguments were evaluated, and what is called is no function:
      \* a TypeError
      IF Running(stack) THEN RaisedError
      ELSE Go(i + 1, Pop(stack), "sep", Undefined)
    ELSE Threw
  ELSE IF s[i] = "=" THEN
    \* an assignment to what is no name
    Outside
  ELSE IF top.kind = "throw" /\ (s[i] = ";" \/ newline) THEN
    \* the end of the throw statement before the end of its block
    Outside
  ELSE IF s[i] = ";" THEN
    IF base[Len(base)].kind \in Statements
      THEN Go(i + 1, EndStatement(base, last), "stmt", last)
      ELSE Threw
  ELSE IF s[i] = "(" THEN
    \* a call of the value last, which is no function in the part read:
    \* its arguments are evaluated first.  An argument that is a function
    \* is outside the part read
    IF TextAt(s, i, ThrowOpen) THEN Outside
    ELSE Go(i + 1, Append(stack, Frame("call")), "val", last)
  ELSE IF s[i] = "[" THEN
    \* a property access: the return statement is no more one array literal
    Go(i + 1,
       Append([stack EXCEPT ![1].single = FALSE], [Frame("idx") EXCEPT !.value = last]),
       "val", last)
  ELSE IF s[i] \in {"-", "+"} THEN
    \* a subtraction, an addition
    Outside
  ELSE IF newline /\ base[Len(base)].kind \in Statements THEN
    \* a token that cannot go on the expression, on a new line: a semicolon
    \* is inserted before it
    Go(i, EndStatement(base, last), "stmt", last)
  ELSE IF TokenAt(s, i).out THEN Outside
  ELSE Threw

\* the shorthand property name, ending before s[e], was read, r being the
\* value of the identifier
Shorthand(e, name, r, stack, top) ==
  IF Running(stack) /\ ~r.ok THEN r
  ELSE Go(e, SetTop(stack, [top EXCEPT !.key = name, !.drop = FALSE]), "sep",
          IF Running(stack) THEN r.last ELSE Undefined)

\* the property key s[i..e-1] was read (e = 0: s[i] starts no key), c being
\* the index of the ":" after it (0: there is none) and n the index of what
\* is next
StepKeyAt(s, i, e, c, n, stack, top, env) ==
  IF e = 0 THEN (IF TokenAt(s, i).out THEN Outside ELSE Threw)
  ELSE IF TokenAt(s, i).out THEN Outside
  ELSE IF c /= 0 THEN
    IF top.proto /\ IsProtoKey(s, i, e) THEN Threw
    ELSE Go(c + 1, SetTop(stack, WithKey(top, s, i, e)), "val", Undefined)
  ELSE IF n <= Len(s) /\ s[n] \in {"(", "="} THEN
    \* a method definition, a pattern with a default value
    Outside
  ELSE IF /\ s[i] \in JSIdentStart
          /\ n <= Len(s)
          /\ s[n] \in {",", "}"}
          /\ KeyName(s, i, e) \notin ReservedNames THEN
    \* a shorthand property: the value of the identifier
    Shorthand(e, KeyName(s, i, e), IdentValue(KeyName(s, i, e), env), stack, top)
  ELSE Threw

\* a property key is expected at s[i]
StepKey(s, i, e, stack, top, last, env) ==
  IF s[i] = "}" THEN
    \* an empty object, or the end of one after a trailing comma
    Go(i + 1, Pop(stack), "sep", ObjectValue(top.props, top.base))
  ELSE IF s[i] = "[" THEN Go(i + 1, Append(stack, Frame("ckey")), "val", last)
  ELSE StepKeyAt(s, i, e, ColonAfter(s, e), RunEnd(s, e, WhiteSpace), stack, top, env)

\* a statement is expected at s[i]; e is the index after the identifier at
\* s[i] and c the index of the ":" after it (0: there is none)
StepStmt(s, i, e, c, stack, top, last) ==
  IF s[i] = ";" THEN Go(i + 1, PopLabels(stack), "stmt", last)
  ELSE IF s[i] = "{" THEN Go(i + 1, Append(stack, Frame("blk")), "stmt", last)
  ELSE IF s[i] = "}" THEN
    IF top.kind = "blk" THEN Go(i + 1, PopLabels(Pop(stack)), "stmt", last)
    ELSE Threw
  ELSE IF s[i] \in JSIdentStart /\ SubSeq(s, i, e - 1) \in Keywords THEN Outside
  ELSE IF s[i] \in JSIdentStart /\ c /= 0 THEN
    \* a label: not a reserved word, and not a label of a statement this
    \* one is in
    IF \/ SubSeq(s, i, e - 1) \in ReservedNames
       \/ \E f \in 1..Len(stack) :
            stack[f].kind = "lbl" /\ stack[f].key = SubSeq(s, i, e - 1)
      THEN Threw
      ELSE Go(c + 1, Append(stack, [Frame("lbl") EXCEPT !.key = SubSeq(s, i, e - 1)]),
              "stmt", last)
  ELSE Go(i, stack, "val", last)

\* the end of the body ends its last statement
StepEnd(stack, mode, last, base) ==
  IF mode = "sep" /\ Len(base) = 1 THEN
    IF Running(stack) THEN Got(last, stack[1].single)
    ELSE Got(stack[1].value, FALSE)
  ELSE IF mode = "stmt" /\ Len(stack) = 1 THEN Got(stack[1].value, FALSE)
  ELSE Threw

\* the right side of the assignment on the top of the stack has been read,
\* s[i] being next: the name is assigned where the body is evaluated, and
\* the value of the assignment is the value assigned
Assigned(r, top) ==
  [Go(r.i, Pop(r.stack), "sep", r.last) EXCEPT
     !.set = IF Running(r.stack) THEN <<[k |-> top.key, v |-> r.last]>> ELSE <<>>]

\* one token of the body s is read, s[i] being the first character after
\* the white space at r.i
StepAt(s, i, r) ==
  IF /\ r.mode = "sep"
     /\ r.stack[Len(r.stack)].kind = "asg"
     /\ (i > Len(s) \/ s[i] \notin {"[", "(", "-", "+", "="})
    THEN Assigned(r, r.stack[Len(r.stack)])
  ELSE IF i > Len(s) THEN StepEnd(r.stack, r.mode, r.last, PopLabels(r.stack))
  ELSE IF r.mode = "val" THEN
    StepVal(s, i, r.stack, r.stack[Len(r.stack)], r.last, r.env)
  ELSE IF r.mode = "sep" THEN
    StepSep(s, i, r.stack, r.stack[Len(r.stack)], r.last,
            \E k \in (r.i)..(i - 1) : s[k] \in LineTerminators,
            PopLabels(r.stack))
  ELSE IF r.mode = "key" THEN
    StepKey(s, i, KeyEnd(s, i), r.stack, r.stack[Len(r.stack)], r.last, r.env)
  ELSE
    StepStmt(s, i, RunEnd(s, i, JSIdentPart),
             ColonAfter(s, RunEnd(s, i, JSIdentPart)),
             r.stack, r.stack[Len(r.stack)], r.last)

\* the reading n a step gave, in the global scope env the step was made in:
\* an assignment adds the name to the global object, or gives it the new value
Scoped(env, n) ==
  [n EXCEPT !.env = IF n.set = <<>> THEN env ELSE PutProp(env, n.set[1].k, n.set[1].v),
            !.set = <<>>]

\* the reading of the function body s from the reading r on
RECURSIVE Eval(_, _)
Eval(s, r) ==
  IF r.done THEN r
  ELSE Eval(s, Scoped(r.env, StepAt(s, RunEnd(s, r.i, WhiteSpace), r)))

\* the reading of the body s starts: of its return statement, which is run
\* in the global scope env or (kind "syn") only parsed
Start(kind, env) == [Go(1, <<Frame(kind)>>, "val", Undefined) EXCEPT !.env = env]

\* the run r of the body s, which ended by raising: the body is parsed
\* before any of it runs, and when it is ill-formed further on nothing ran
Parsed(s, r, env) ==
  LET p == Eval(s, Start("syn", env))
  IN  IF p.ok THEN r ELSE p

\* Function(s)() in the global scope env
Run(s, env) ==
  IF Foreign(s, 1, "other") THEN Outside
  ELSE LET r == Eval(s, Start("ret", env))
       IN  IF r.err \in {"error", "nullish"} THEN Parsed(s, r, env) ELSE r

\* what Function(`return [${text}]`)() gave, the run having ended as r
\* from the global scope env: scope is the global scope it left, which is
\* env when nothing ran
EvalResult(r, env) ==
  IF ~r.ok THEN
    [ok |-> FALSE, out |-> r.out, nullish |-> r.err = "nullish", array |-> TRUE,
     v |-> <<>>, single |-> FALSE,
     scope |-> IF r.err \in {"error", "nullish"} THEN r.env ELSE env]
  ELSE IF r.last.kind = "arr"
    THEN [ok |-> TRUE, out |-> FALSE, nullish |-> FALSE, array |-> TRUE,
          v |-> [j \in 1..Len(r.last.elems) |-> r.last.elems[j].enc],
          single |-> r.single, scope |-> r.env]
  ELSE [ok |-> TRUE, out |-> FALSE, nullish |-> FALSE, array |-> FALSE,
        v |-> <<r.last.enc>>, single |-> FALSE, scope |-> r.env]

\* Function(`return [${text}]`)() in the global scope env: the value
\* returned, or it raised (nullish: null or undefined), or (out) the body is
\* outside the part read.  array tells whether the value is an array; v is
\* then its elements, and otherwise the one value
EvalArray(text, env) == EvalResult(Run(<<"[">> \o text \o <<"]">>, env), env)

\* paramsStr.trim() is empty
IsBlank(text) == \A i \in 1..Len(text) : text[i] \in WhiteSpace

\* lines 94-97: how parseParams ends after the evaluation r.  It returns
\* params (the elements when the value is an array, as array tells, and the
\* one value otherwise); when the evaluation raised, its catch block logs
\* error.message and returns the empty list (logged), unless null or
\* undefined was raised: reading error.message then raises a TypeError,
\* which leaves parseParams (raised) before anything is logged.  scope is
\* the global scope the evaluation left; outside tells that the text is
\* outside the part read, and nothing else is said then
Returned(r) ==
  [params |-> r.v, array |-> r.array,
   logged |-> ~r.ok /\ ~r.out /\ ~r.nullish,
   raised |-> ~r.ok /\ ~r.out /\ r.nullish,
   outside |-> r.out, scope |-> r.scope]

\* what parseParams returns for a blank text
EmptyParams(scope) ==
  [params |-> <<>>, array |-> TRUE, logged |-> FALSE, raised |-> FALSE,
   outside |-> FALSE, scope |-> scope]

\* parseParams, the global scope of the process being scope
parseParams(paramsStr, scope) ==
  IF IsBlank(paramsStr) THEN EmptyParams(scope)
  ELSE Returned(EvalArray(Normalize(paramsStr), scope))

\* the spread of line 62 can iterate what parseParams returned: an array or
\* a string; on any other value it raises a TypeError
Iterable(pp) == pp.array \/ pp.params[1][1] = "str"

\* what iterating it yields: the elements of the array, or the characters
\* of the string
Items(pp) ==
  IF pp.array THEN pp.params
  ELSE [i \in 1..(Len(pp.params[1]) - 2) |-> EncString(<<pp.params[1][i + 1]>>)]

\* the arguments a function receives from f(params), the spread left out:
\* the array itself, as one argument
SpreadAs(items) == <<EncArray(items)>>

\* the arguments a function receives from f(...params): an elided element
\* of the array arrives as undefined
Spread(items) ==
  [i \in 1..Len(items) |-> IF items[i] = EncHole THEN EncUndefined ELSE items[i]]

(***************************************************************************)
(* The registry: taskMap is a Map, kept as the sequence of its entries in  *)
(* insertion order.                                                        *)
(***************************************************************************)
\* what Map.prototype.get returns for a key that is absent (undefined)
NoFn == "undefined"

\* a registry that adds an entry on every set, also for a key it holds
MapSetAs(map, key, fn) == Append(map, [name |-> key, fn |-> fn])

\* Map.prototype.set: a key already present keeps its place and takes the
\* new value, a new key is added at the end
RECURSIVE MapSet(_, _, _)
MapSet(map, key, fn) ==
  IF map = <<>> THEN <<[name |-> key, fn |-> fn]>>
  ELSE IF Head(map).name = key THEN <<[name |-> key, fn |-> fn]>> \o Tail(map)
  ELSE <<Head(map)>> \o MapSet(Tail(map), key, fn)

\* a lookup that falls back to the first entry when the key is absent
MapGetAs(map, key) ==
  IF map = <<>> THEN NoFn
  ELSE IF \E i \in 1..Len(map) : map[i].name = key
    THEN map[CHOOSE i \in 1..Len(map) : map[i].name = key].fn
  ELSE map[1].fn

\* Map.prototype.get
RECURSIVE MapGet(_, _)
MapGet(map, key) ==
  IF map = <<>> THEN NoFn
  ELSE IF Head(map).name = key THEN Head(map).fn
  ELSE MapGet(Tail(map), key)

\* Array.from(map.keys())
MapKeys(map) == [i \in 1..Len(map) |-> map[i].name]

(***************************************************************************)
(* The prototype of the service: its own properties in definition order.   *)
(* decorated tells whether @Task attached metadata to the method, name is  *)
(* the metadata's name, body is what the method does when called: "logs"   *)
(* (the bodies of the source, which write one log line and return) or      *)
(* "opaque" (a task body that may also raise).                             *)
(***************************************************************************)
Method(m, decorated, name, body) ==
  [method |-> m, decorated |-> decorated, name |-> name, body |-> body]

noParams == <<"n", "o", "P", "a", "r", "a", "m", "s">>
params == <<"p", "a", "r", "a", "m", "s">>
clearTemp == <<"c", "l", "e", "a", "r", "T", "e", "m", "p">>
monitorSystem == <<"m", "o", "n", "i", "t", "o", "r", "S", "y", "s", "t", "e", "m">>
backupDatabase == <<"b", "a", "c", "k", "u", "p", "D", "a", "t", "a", "b", "a", "s", "e">>

\* the constructor and the undecorated methods, lines 11-99
BaseMethods ==
  << Method("constructor", FALSE, <<>>, "logs"),
     Method("initializeTasks", FALSE, <<>>, "logs"),
     Method("getTasks", FALSE, <<>>, "logs"),
     Method("executeTask", FALSE, <<>>, "logs"),
     Method("parseParams", FALSE, <<>>, "logs") >>

\* the decorated methods, lines 101-142
SourceHandlers ==
  << Method("ryNoParams", TRUE, noParams, "logs"),
     Method("ryParams", TRUE, params, "logs"),
     Method("clearTemp", TRUE, clearTemp, "logs"),
     Method("monitorSystem", TRUE, monitorSystem, "logs"),
     Method("backupDatabase", TRUE, backupDatabase, "logs") >>

SourceMethods == BaseMethods \o SourceHandlers

\* Other handler sets a TaskService may carry: up to MaxMethods methods, each
\* undecorated or decorated with one of two task names, with opaque bodies.
PoolMethods == <<"taskA", "taskB", "taskC", "taskD", "taskE">>

PoolNames == {noParams, params}

PoolChoices ==
  {Method("", FALSE, <<>>, "opaque")}
    \cup {Method("", TRUE, n, "opaque") : n \in PoolNames}

HandlerTables ==
  UNION {
    {[i \in 1..n |-> [f[i] EXCEPT !.method = PoolMethods[i]]] :
       f \in [1..n -> PoolChoices]} : n \in 0..MaxMethods}

MethodTables == {SourceMethods} \cup {BaseMethods \o h : h \in HandlerTables}

\* lines 19-20: the names of the prototype's function properties, the
\* constructor left out
RECURSIVE MethodNames(_)
MethodNames(prototype) ==
  IF prototype = <<>> THEN <<>>
  ELSE IF Head(prototype).method /= "constructor"
    THEN <<Head(prototype)>> \o MethodNames(Tail(prototype))
  ELSE MethodNames(Tail(prototype))

\* lines 22-28: the loop over the methods, map being the registry so far
RECURSIVE RegisterAll(_, _)
RegisterAll(ms, map) ==
  IF ms = <<>> THEN map
  ELSE IF Head(ms).decorated
    THEN RegisterAll(Tail(ms), MapSet(map, Head(ms).name, Head(ms).method))
  ELSE RegisterAll(Tail(ms), map)

\* initializeTasks, run by the constructor on the empty taskMap
initializeTasks(prototype) == RegisterAll(MethodNames(prototype), <<>>)

\* how a call of a bound method can end: "completed", "raisedError" (it
\* throws or rejects with a value whose message can be read) or
\* "raisedNullish" (it throws or rejects with null or undefined)
Outcomes == {"completed", "raisedError", "raisedNullish"}

OutcomesOf(prototype, fn) ==
  IF \E i \in 1..Len(prototype) :
       prototype[i].method = fn /\ prototype[i].body = "opaque"
    THEN Outcomes
    ELSE {"completed"}

\* how the call of a bound method can end before it returns: "none" (it
\* returns a value or a promise, as every async method does), or it throws
Throws == {"none", "raisedError", "raisedNullish"}

ThrowsOf(prototype, fn) == {"none"} \cup (OutcomesOf(prototype, fn) \ {"completed"})

(***************************************************************************)
(* State.                                                                  *)
(***************************************************************************)
VARIABLES
  \* the prototype the service was constructed from
  methods,
  \* this.taskMap
  taskMap,
  \* the global scope of the process, which the body of line 94 runs in: the
  \* names argument texts have assigned, with their values
  globals,
  \* the executeTask calls, by caller: where each one is and what it did
  calls,
  \* what the last getTasks call returned
  listed

vars == <<methods, taskMap, globals, calls, listed>>

Callers == 1..NumCalls

\* A call that has not been made.  pc is "idle", "awaiting" (suspended at
\* the await of line 62), "returned" or "rejected" (an exception left
\* executeTask); a call whose pc is "outside" has an argument text outside
\* the part of the language Eval reads, and is not followed.  scope is the
\* global scope the call was made in, path lists the stages the call went
\* through, invoked the handler calls it made, errors the logger.error
\* entries it wrote.
IdleCall ==
  [pc |-> "idle", target |-> <<>>, scope |-> <<>>, methodName |-> <<>>,
   path |-> <<>>, invoked |-> <<>>, errors |-> <<>>, outcome |-> "none",
   result |-> "none"]

\* lines 64-67, the catch block: reading error.message of null or undefined
\* raises a TypeError that leaves executeTask; otherwise one error entry is
\* logged and false returned
Catch(call, nullish) ==
  IF nullish THEN [call EXCEPT !.pc = "rejected", !.result = "TypeError"]
  ELSE [call EXCEPT !.pc = "returned", !.result = "false",
                    !.errors = Append(@, "executeTask")]

\* lines 56-62: executeTask from the lookup on, parseParams having ended
\* as pp for the call parsed (its errors hold what parseParams logged), up
\* to its return or to the await of line 62, the handler having been called
\* and having returned.  A TypeError that leaves parseParams is caught at
\* line 64 before any lookup.  The call's pc is "outside" when the argument
\* text is outside the part of the language read, and nothing is said of
\* the call then
Lookup(map, parsed, pp) ==
  IF pp.outside THEN [parsed EXCEPT !.pc = "outside", !.errors = <<>>]
  ELSE IF pp.raised
    THEN Catch([parsed EXCEPT !.path = <<"Parsing", "ParseFailed">>], FALSE)
  ELSE IF MapGet(map, parsed.methodName) = NoFn
    THEN Catch([parsed EXCEPT
                  !.path = <<"Parsing", "Parsed", "Lookup", "NotFound">>],
               FALSE)
  ELSE IF ~Iterable(pp)
    \* the spread raises a TypeError before the handler is called
    THEN Catch([parsed EXCEPT
                  !.path = <<"Parsing", "Parsed", "Lookup", "Found",
                             "Invoking", "Faulted">>],
               FALSE)
  ELSE [parsed EXCEPT
          !.pc = "awaiting",
          !.path = <<"Parsing", "Parsed", "Lookup", "Found", "Invoking">>,
          !.invoked = <<[fn |-> MapGet(map, parsed.methodName),
                         args |-> Spread(Items(pp))]>>]

\* lines 52-62: the call start from the destructuring of the match m on,
\* parseParams having ended as pp
Parse(map, start, m, pp) ==
  [call |-> Lookup(map,
                   [start EXCEPT
                      !.methodName = m.methodName,
                      !.errors = IF pp.logged THEN <<"parseParams">> ELSE <<>>],
                   pp),
   scope |-> pp.scope]

\* lines 47-62: the call start once the pattern was tried, m being what
\* the match gave: line 53 calls parseParams when group 2 is a string that
\* is not empty
Match(map, start, m, scope) ==
  IF ~m.matched
    THEN [call |-> Catch([start EXCEPT !.path = <<"Parsing", "ParseFailed">>], FALSE),
          scope |-> scope]
  ELSE Parse(map, start, m,
             IF m.hasParams /\ m.paramsStr /= <<>>
               THEN parseParams(m.paramsStr, scope)
               ELSE EmptyParams(scope))

\* lines 43-62: executeTask(target), made in the global scope scope, up to
\* its return or to the await of line 62: call is the call then and scope
\* the global scope line 53 left
Dispatch(map, target, scope) ==
  Match(map, [IdleCall EXCEPT !.target = target, !.scope = scope],
        MatchTarget(target), scope)

\* executeTask from the await on, line 63 (return true) left out
ResumeAs(call, outcome) ==
  IF outcome = "completed"
    THEN [call EXCEPT !.pc = "returned", !.result = "undefined", !.outcome = outcome,
                      !.path = Append(@, "Completed")]
    ELSE Catch([call EXCEPT !.outcome = outcome, !.path = Append(@, "Faulted")],
               outcome = "raisedNullish")

\* lines 62-67: executeTask from the await on, the handler having settled
Resume(call, outcome) ==
  IF outcome = "completed"
    THEN [call EXCEPT !.pc = "returned", !.result = "true", !.outcome = outcome,
                      !.path = Append(@, "Completed")]
    ELSE Catch([call EXCEPT !.outcome = outcome, !.path = Append(@, "Faulted")],
               outcome = "raisedNullish")

\* the calls after caller c's call became rec: a call's record is local to it
SetCall(cs, c, rec) == [cs EXCEPT ![c] = rec]

(***************************************************************************)
(* Inputs.                                                                 *)
(***************************************************************************)
\* name(args)
Invocation(name, args) == name \o <<"(">> \o args \o <<")">>

\* the invocation strings of the main specification: registered names bare
\* and with arguments, unknown names, and strings of neither shape
MainTargets ==
  { <<"n", "o", "P", "a", "r", "a", "m", "s">>,
    <<"p", "a", "r", "a", "m", "s">>,
    <<"c", "l", "e", "a", "r", "T", "e", "m", "p">>,
    <<"m", "o", "n", "i", "t", "o", "r", "S", "y", "s", "t", "e", "m">>,
    <<"b", "a", "c", "k", "u", "p", "D", "a", "t", "a", "b", "a", "s", "e">>,
    <<"b", "a", "c", "k", "u", "p", "D", "a", "t", "a", "b", "a", "s", "e", "(", ")">>,
    <<"n", "o", "P", "a", "r", "a", "m", "s", "(", " ", ")">>,
    <<"p", "a", "r", "a", "m", "s", "(", "'", "x", "'", ",", " ", "1", ",", " ", "f", "a", "l", "s", "e", ")">>,
    <<"p", "a", "r", "a", "m", "s", "(", "{", "a", ":", " ", "1", "}", ",", " ", "[", "2", "]", ")">>,
    <<"p", "a", "r", "a", "m", "s", "(", "o", "o", "p", "s", ")">>,
    <<"n", "o", "P", "a", "r", "a", "m", "s", "(", "1", " ", "2", ")">>,
    <<"u", "n", "k", "n", "o", "w", "n", "N", "a", "m", "e">>,
    <<"u", "n", "k", "n", "o", "w", "n", "N", "a", "m", "e", "(", "1", ")">>,
    <<"u", "n", "k", "n", "o", "w", "n", "N", "a", "m", "e", "(", "o", "o", "p", "s", ")">>,
    <<"r", "y", "N", "o", "P", "a", "r", "a", "m", "s">>,
    <<"r", "y", "P", "a", "r", "a", "m", "s", "(", "'", "x", "'", ")">>,
    <<"t", "a", "s", "k", "A">>,
    <<"e", "x", "e", "c", "u", "t", "e", "T", "a", "s", "k">>,
    <<"g", "e", "t", "T", "a", "s", "k", "s">>,
    <<"p", "a", "r", "s", "e", "P", "a", "r", "a", "m", "s">>,
    <<"i", "n", "i", "t", "i", "a", "l", "i", "z", "e", "T", "a", "s", "k", "s">>,
    <<"c", "o", "n", "s", "t", "r", "u", "c", "t", "o", "r">>,
    <<"p", "a", "r", "a", "m", "s", " ", "(", "'", "x", "'", ")">>,
    <<"n", "o", "P", "a", "r", "a", "m", "s", " ">>,
    <<"n", "o", "P", "a", "r", "a", "m", "s", ")">>,
    <<>>,
    <<"(">>,
    <<"(", "x", ")">>,
    <<"(", ")">>,
    <<"b", "a", "d", "S", "y", "n", "t", "a", "x", "(", "(", "(">>,
    <<"n", "o", "P", "a", "r", "a", "m", "s", "(">>,
    <<"p", "a", "r", "a", "m", "s", "(", "'", "x", "'">>,
    <<"p", "a", "r", "a", "m", "s", "(", "1", ")", "x">>,
    <<"n", "o", "P", "a", "r", "a", "m", "s", "(", "\n", ")">>,
    <<"p", "a", "r", "a", "m", "s", "(", "\f", ")">>,
    <<"p", "a", "r", "a", "m", "s", "(", "1", "2", "3", ".", "4", "5", ")">>,
    <<"p", "a", "r", "a", "m", "s", "(", "-", "1", ",", " ", "1", "e", "3", ",", " ", "'", "a", "\\", "n", "b", "'", ")">>,
    <<"p", "a", "r", "a", "m", "s", "(", "1", ",", "2", "]", "[", "1", ")">>,
    <<"p", "a", "r", "a", "m", "s", "(", "1", "]", ",", "2", ";", "[", ")">>,
    <<"p", "a", "r", "a", "m", "s", "(", "1", "]", ",", "'", "a", "b", "'", ";", "[", ")">>,
    <<"p", "a", "r", "a", "m", "s", "(", "1", "]", ",", "[", "2", ")">>,
    <<"p", "a", "r", "a", "m", "s", "(", "'", "a", "'", "U+2028", ")">>,
    <<"n", "o", "P", "a", "r", "a", "m", "s", "(", "", ")">>,
    <<"p", "a", "r", "a", "m", "s", "(", "(", "(", ")", "=", ">", "{", "t", "h", "r", "o", "w", " ", "n", "u", "l", "l", "}", ")", "(", ")", ")">>,
    <<"p", "a", "r", "a", "m", "s", "(", "(", "(", ")", "=", ">", "{", "t", "h", "r", "o", "w", " ", "1", "}", ")", "(", ")", ")">>,
    <<"u", "n", "k", "n", "o", "w", "n", "N", "a", "m", "e", "(", "(", "(", ")", "=", ">", "{", "t", "h", "r", "o", "w", " ", "u", "n", "d", "e", "f", "i", "n", "e", "d", "}", ")", "(", ")", ")">>,
    <<"p", "a", "r", "a", "m", "s", "(", "{", "[", "{", "t", "o", "S", "t", "r", "i", "n", "g", ":", " ", "1", "}", "]", ":", " ", "1", "}", ")">>,
    <<"p", "a", "r", "a", "m", "s", "(", "x", " ", "=", " ", "1", ",", " ", "x", ")">>,
    <<"n", "o", "\n", "P", "a", "r", "a", "m", "s">> }

\* the invocation strings of the concurrent specification
ConcTargets ==
  { <<"n", "o", "P", "a", "r", "a", "m", "s">>,
    <<"p", "a", "r", "a", "m", "s", "(", "'", "x", "'", ",", " ", "1", ",", " ", "f", "a", "l", "s", "e", ")">>,
    <<"p", "a", "r", "a", "m", "s", "(", "o", "o", "p", "s", ")">>,
    <<"c", "l", "e", "a", "r", "T", "e", "m", "p", "(", ")">>,
    <<"u", "n", "k", "n", "o", "w", "n", "N", "a", "m", "e">>,
    <<"b", "a", "d", "S", "y", "n", "t", "a", "x", "(", "(", "(">>,
    <<"p", "a", "r", "a", "m", "s", "(", "x", "=", "1", ")">>,
    <<"p", "a", "r", "a", "m", "s", "(", "x", ")">>,
    <<"u", "n", "k", "n", "o", "w", "n", "N", "a", "m", "e", "(", "x", "=", "[", "2", "]", ")">> }

\* literals of every kind parseParams documents (lines 72-79)
LiteralTexts ==
  { <<"'", "x", "'">>,
    <<"\"", "x", "\"">>,
    <<"1">>,
    <<"t", "r", "u", "e">>,
    <<"n", "u", "l", "l">>,
    <<"u", "n", "d", "e", "f", "i", "n", "e", "d">>,
    <<"[", "1", ",", " ", "'", "a", "'", "]">>,
    <<"{", "a", ":", " ", "1", "}">>,
    <<"{", "\"", "a", "\"", ":", " ", "'", "b", "'", ",", " ", "c", ":", " ", "[", "n", "u", "l", "l", "]", "}">>,
    <<"{", " ", "b", " ", ":", " ", "{", "c", ":", "2", "}", " ", "}">>,
    <<"'", "x", ",", " ", "y", "'">>,
    <<"'", "a", ",", "b", ":", "c", "'">>,
    <<"'", "{", "a", ":", "1", "}", "'">>,
    <<"\"", "i", "t", "'", "s", "\"">>,
    <<"'", "s", "a", "y", " ", "\"", "h", "i", "\"", "'">>,
    <<"1", "2", "3", ".", "4", "5">> }

\* argument texts that are not literal syntax
BrokenTexts ==
  { <<"o", "o", "p", "s">>,
    <<"1", " ", "2">>,
    <<"'", "x">>,
    <<"{", "a", ":", "}">>,
    <<"[", "1">>,
    <<"1", ")">>,
    <<"x", ":", " ", "1">>,
    <<"{", "a", " ", "1", "}">>,
    <<"'", "a", "'", " ", "'", "b", "'">>,
    <<"1", ",", ",", " ", "o", "o", "p", "s">> }

\* the argument texts of the examples (lines 40 and 72-79)
ExampleTexts ==
  { <<"'", "x", "'", ",", " ", "1", ",", " ", "f", "a", "l", "s", "e">>,
    <<"1", ",", " ", "'", "t", "e", "s", "t", "'", ",", " ", "t", "r", "u", "e">>,
    <<"'", "h", "e", "l", "l", "o", "'", ",", " ", "4", "2", ",", " ", "t", "r", "u", "e">>,
    <<"'", "t", "e", "x", "t", "'", ",", " ", "\"", "t", "e", "x", "t", "\"">>,
    <<"1", "2", "3", ",", " ", "1", "2", "3", ".", "4", "5">>,
    <<"t", "r", "u", "e", ",", " ", "f", "a", "l", "s", "e">>,
    <<"1", ",", " ", "'", "a", "'", ",", " ", "n", "u", "l", "l", ",", " ", "u", "n", "d", "e", "f", "i", "n", "e", "d">>,
    <<"[", "1", ",", " ", "'", "t", "e", "x", "t", "'", ",", " ", "t", "r", "u", "e", "]">>,
    <<"{", "a", ":", " ", "1", ",", " ", "b", ":", " ", "'", "t", "e", "x", "t", "'", "}">>,
    <<>> }

\* argument texts written on two lines
TwoLineTexts ==
  { <<"'", "x", "'", ",", "\n", "1">>,
    <<"1", ",", "\n", "{", "a", ":", " ", "2", "}">>,
    <<"'", "x", "'", ",", "U+2028", "1">>,
    <<"1", "\r", "2">>,
    <<"1", "]", ",", "2", "\n", "3", ",", "[">>,
    <<"1", "]", "\n", "2", ",", "[", "3">> }

\* argument texts with white space other than the space
SpaceTexts ==
  { <<"\f">>,
    <<" ", "\f", " ">>,
    <<"">>,
    <<" ", "﻿">>,
    <<"{", "\f", "a", ":", "1", "}">>,
    <<"{", "a", "\f", ":", "1", "}">>,
    <<"{", "", "a", ":", "1", "}">>,
    <<"1", ",", "\f", "2">>,
    <<"1", ",", "\t", "'", "a", "'">>,
    <<"U+2003">>,
    <<"{", "a", "U+3000", ":", " ", "1", "}">> }

\* numbers as the language writes them
NumberTexts ==
  { <<"1", "_", "0">>,
    <<"1", "_", "_", "0">>,
    <<"1", "_">>,
    <<"1", ".", "5", "0">>,
    <<".", "5">>,
    <<"5", ".">>,
    <<"0", "1", "7">>,
    <<"0", "8", ".", "5">>,
    <<"0", "1", "7", ".", "5">>,
    <<"0", "_", "1">>,
    <<"1", ".", "5", ".", "5">>,
    <<"0", ".", "0", "0", "0", "0", "0", "0", "1">>,
    <<"0", ".", "0", "0", "0", "0", "0", "1", "2", "0">>,
    <<"1", "$">>,
    <<"1", "_", "0", "0", "0", ".", "2", "_", "5">>,
    <<"-", "1">>,
    <<"+", "1">>,
    <<"1", "e", "3">>,
    <<"1", ".", "5", "e", "+", "3">>,
    <<"2", "5", "e", "-", "1">>,
    <<"0", "x", "1", "F">>,
    <<"0", "b", "1", "1">>,
    <<"0", "o", "1", "7">>,
    <<"1", "e", "2", "1">>,
    <<"-", "0">>,
    <<"N", "a", "N">>,
    <<"-", "I", "n", "f", "i", "n", "i", "t", "y">>,
    <<"0", "7", "7", "7", "7", "7", "7", "7", "7", "7", "7", "7">>,
    <<"5", "e">>,
    <<"0", "x">>,
    <<"1", "e", "3", "x">> }

\* strings with escapes
EscapeTexts ==
  { <<"'", "a", "\\", "n", "b", "'">>,
    <<"'", "\\", "x", "4", "1", "'">>,
    <<"\"", "\\", "u", "0", "0", "4", "1", "\"", ",", " ", "1">>,
    <<"'", "a", "\\", "\\", "'">>,
    <<"'", "\\", "'", "\\", "'", "'">>,
    <<"\"", "a", "\\", "\"", "b", "\"">>,
    <<"'", "a", "\\", "'", "b", "'">>,
    <<"'", "\\", "x", "4", "'">>,
    <<"{", "'", "\\", "x", "4", "1", "'", ":", "1", "}">>,
    <<"'", "\\", "x", "2", "7", "'">>,
    <<"'", "\\", "\\", "'", ",", " ", "'", "a", "'">>,
    <<"'", "a", "\\", "\"", "b", "'">>,
    <<"'", "\\", "\\", "\"", "'">>,
    <<"\"", "\\", "\"", "\"", ",", " ", "'", "a", "'">> }

\* object literals whose keys are not plain identifiers
KeyTexts ==
  { <<"{", "a", ":", "1", ",", "1", ":", "2", "}">>,
    <<"{", "2", ":", "1", ",", "1", ":", "2", "}">>,
    <<"{", "b", ":", "1", ",", "a", ":", "2", ",", "0", ":", "3", "}">>,
    <<"{", "'", "a", "'", ":", "1", ",", "[", "1", "]", ":", "2", "}">>,
    <<"{", "[", "1", "]", ":", "2", "}">>,
    <<"{", "[", "'", "a", "'", ",", "1", "]", ":", "2", "}">>,
    <<"{", "$", ":", "1", "}">>,
    <<"{", "a", "$", ":", "1", "}">>,
    <<"{", "$", "a", ":", "0", "}">>,
    <<"{", "1", "_", "0", ":", "0", "}">>,
    <<"{", "_", "_", "p", "r", "o", "t", "o", "_", "_", ":", "n", "u", "l", "l", "}">>,
    <<"{", "_", "_", "p", "r", "o", "t", "o", "_", "_", ":", "1", ",", "a", ":", "2", "}">>,
    <<"{", "_", "_", "p", "r", "o", "t", "o", "_", "_", ":", "1", ",", "'", "_", "_", "p", "r", "o", "t", "o", "_", "_", "'", ":", "2", "}">>,
    <<"{", "a", ":", "1", ",", "a", ":", "2", ",", "b", ":", "3", "}">>,
    <<"{", "0", "1", ":", "1", ",", "1", ".", "0", ":", "2", "}">>,
    <<"{", "u", "n", "d", "e", "f", "i", "n", "e", "d", "}">>,
    <<"{", "o", "o", "p", "s", "}">>,
    <<"{", "t", "r", "u", "e", "}">>,
    <<"{", "[", "[", "1", ",", "2", "]", "]", ":", "3", "}">>,
    <<"{", "[", "{", "}", "]", ":", "1", "}">>,
    <<"{", "[", "-", "1", "]", ":", "1", ",", "[", "-", "0", "]", ":", "2", "}">>,
    <<"{", "[", "[", "n", "u", "l", "l", ",", "[", "1", ",", ",", "2", "]", "]", "]", ":", "3", "}">>,
    <<"{", "N", "a", "N", "}">>,
    <<"{", "-", "1", ":", "1", "}">>,
    <<"{", "[", "{", "t", "o", "S", "t", "r", "i", "n", "g", ":", "1", "}", "]", ":", "1", "}">>,
    <<"{", "[", "{", "_", "_", "p", "r", "o", "t", "o", "_", "_", ":", "n", "u", "l", "l", "}", "]", ":", "1", "}">>,
    <<"{", "[", "{", "\"", "t", "o", "S", "t", "r", "i", "n", "g", "\"", ":", "u", "n", "d", "e", "f", "i", "n", "e", "d", "}", "]", ":", "1", "}">>,
    <<"{", "[", "[", "1", ",", "{", "t", "o", "S", "t", "r", "i", "n", "g", ":", "1", "}", "]", "]", ":", "1", "}">>,
    <<"{", "[", "{", "v", "a", "l", "u", "e", "O", "f", ":", "1", "}", "]", ":", "1", "}">>,
    <<"{", "[", "{", "_", "_", "p", "r", "o", "t", "o", "_", "_", ":", "1", "}", "]", ":", "1", "}">>,
    <<"{", "[", "{", "_", "_", "p", "r", "o", "t", "o", "_", "_", ":", "n", "u", "l", "l", ",", "a", ":", "1", "}", "]", ":", "o", "o", "p", "s", "}">>,
    <<"{", "[", "{", "t", "o", "S", "t", "r", "i", "n", "g", ":", "1", "}", "]", ":", "1">>,
    <<"{", "[", "{", "a", ":", "{", "t", "o", "S", "t", "r", "i", "n", "g", ":", "1", "}", "}", "]", ":", "1", "}">>,
    <<"{", "[", "[", "{", "}", "]", ",", "{", "a", ":", "1", "}", "]", ":", "1", "}">>,
    <<"1", ",", "2", "]", "[", "{", "t", "o", "S", "t", "r", "i", "n", "g", ":", "1", "}">>,
    <<"1", ",", "2", "]", "[", "[", "{", "_", "_", "p", "r", "o", "t", "o", "_", "_", ":", "n", "u", "l", "l", "}", "]">>,
    <<"n", "u", "l", "l", "]", "[", "{", "t", "o", "S", "t", "r", "i", "n", "g", ":", "1", "}">>,
    <<"{", "[", "{", "[", "\"", "t", "o", "S", "t", "r", "i", "n", "g", "\"", "]", ":", "1", "}", "]", ":", "1", "}">>,
    <<"{", "[", "{", "_", "_", "p", "r", "o", "t", "o", "_", "_", ":", "[", "7", "]", "}", "]", ":", "1", "}">>,
    <<"{", "[", "{", "_", "_", "p", "r", "o", "t", "o", "_", "_", ":", "{", "_", "_", "p", "r", "o", "t", "o", "_", "_", ":", "[", "1", ",", ",", "{", "}", "]", "}", "}", "]", ":", "1", "}">>,
    <<"{", "[", "{", "_", "_", "p", "r", "o", "t", "o", "_", "_", ":", "[", "7", "]", ",", "j", "o", "i", "n", ":", "1", "}", "]", ":", "1", "}">>,
    <<"{", "[", "{", "_", "_", "p", "r", "o", "t", "o", "_", "_", ":", "{", "t", "o", "S", "t", "r", "i", "n", "g", ":", "1", "}", "}", "]", ":", "1", "}">>,
    <<"1", ",", "2", "]", "[", "{", "_", "_", "p", "r", "o", "t", "o", "_", "_", ":", "[", "1", "]", "}">> }

\* argument texts that close the array of line 94 early, the last ones to
\* take an element of it
EarlyCloseTexts ==
  { <<"1", "]", ",", "[", "2">>,
    <<"]", ";", "[">>,
    <<"1", "]", ";", "[", "2">>,
    <<"1", "]", ",", "2", ";", "[">>,
    <<"1", "]", ",", "'", "a", "b", "'", ";", "[">>,
    <<"1", "]", ",", "'", "'", ";", "[">>,
    <<"1", "]", ",", "n", "u", "l", "l", ";", "[">>,
    <<"1", "]", ",", "{", "}", ";", "[">>,
    <<"]", ";", "{", "}", "[">>,
    <<"]", ";", "{", "1", "}", "[">>,
    <<"]", ";", "{", "a", ":", "1", "}", "[">>,
    <<"]", ";", "a", ":", "1", ";", "[">>,
    <<"]", ";", "a", ":", "a", ":", "1", ";", "[">>,
    <<"]", ";", "a", ":", "{", "}", ";", "a", ":", "1", ";", "[">>,
    <<"]", ";", "t", "r", "u", "e", ":", "1", ";", "[">>,
    <<"]", ";", "o", "o", "p", "s", "(", "1", ",", ")", "[", "0", "]", ";", "[">>,
    <<"]", ";", "o", "o", "p", "s", "(", ",", ")", ";", "[">>,
    <<"]", ";", "[", "]", "[">>,
    <<"]", ";", "a", ":", "[">>,
    <<"1", "]", "}", "[">>,
    <<"1", "]", "(", "2", ")", ",", "[">>,
    <<"1", "]", ";", ";", "[">>,
    <<"]", ";", "(", "1", ",", "2", ")", ",", "{", "[", "1", "]", ":", "o", "o", "p", "s", "}", ";", "[">>,
    <<"1", ",", "2", "]", "[", "1">>,
    <<"[", "1", "]", ",", "[", "2", "]", "]", "[", "1">>,
    <<"1", "]", "[", "1">>,
    <<"1", ",", ",", "2", "]", "[", "1">>,
    <<"n", "u", "l", "l", "]", "[", "0">>,
    <<"n", "u", "l", "l", "]", "[", "0", "]", "[", "0">>,
    <<"1", ",", "2", "]", "[", "[", "1", "]", "]">>,
    <<"1", ",", "2", "]", "[", "'", "0", "'">>,
    <<"1", ",", "2", "]", "[", "0", ",", "1">>,
    <<"1", ",", "2", "]", "[", "0", "]", ";", "[">>,
    <<"1", "]", "[", "o", "o", "p", "s">>,
    <<"1", ",", "2", "]", "[", "-", "0">> }

\* argument texts that raise a value where they are evaluated
ThrowTexts ==
  { <<"(", "(", ")", "=", ">", "{", "t", "h", "r", "o", "w", " ", "n", "u", "l", "l", "}", ")", "(", ")">>,
    <<"(", "(", ")", "=", ">", "{", "t", "h", "r", "o", "w", " ", "u", "n", "d", "e", "f", "i", "n", "e", "d", "}", ")", "(", ")">>,
    <<"(", "(", ")", "=", ">", "{", "t", "h", "r", "o", "w", " ", "1", "}", ")", "(", ")">>,
    <<"(", "(", ")", "=", ">", "{", "t", "h", "r", "o", "w", " ", "'", "a", "'", "}", ")", "(", ")">>,
    <<"(", "(", ")", "=", ">", "{", "t", "h", "r", "o", "w", " ", "{", "}", "}", ")", "(", ")">>,
    <<"(", "(", ")", "=", ">", "{", "t", "h", "r", "o", "w", " ", "[", "n", "u", "l", "l", "]", "}", ")", "(", ")">>,
    <<"1", ",", " ", "(", "(", ")", "=", ">", "{", "t", "h", "r", "o", "w", " ", "n", "u", "l", "l", "}", ")", "(", ")">>,
    <<"(", "(", ")", "=", ">", "{", "t", "h", "r", "o", "w", " ", "n", "u", "l", "l", "}", ")", "(", ")", ",", " ", "1">>,
    <<"(", "(", ")", "=", ">", "{", "t", "h", "r", "o", "w", " ", "n", "u", "l", "l", "}", ")", "(", ")", ",", " ", "}">>,
    <<"(", "(", ")", "=", ">", "{", "t", "h", "r", "o", "w", " ", "n", "u", "l", "l", "}", ")", "(", ")", ",", " ", "1", " ", "2">>,
    <<"o", "o", "p", "s", ",", " ", "(", "(", ")", "=", ">", "{", "t", "h", "r", "o", "w", " ", "n", "u", "l", "l", "}", ")", "(", ")">>,
    <<"(", "(", ")", "=", ">", "{", "t", "h", "r", "o", "w", " ", "n", "u", "l", "l", "}", ")", "(", ")", ",", " ", "o", "o", "p", "s">>,
    <<"(", "(", ")", "=", ">", "{", "t", "h", "r", "o", "w", " ", "o", "o", "p", "s", "}", ")", "(", ")">>,
    <<"(", "(", ")", "=", ">", "{", "t", "h", "r", "o", "w", " ", "(", "1", ",", " ", "n", "u", "l", "l", ")", "}", ")", "(", ")">>,
    <<"(", "(", ")", "=", ">", "{", "t", "h", "r", "o", "w", " ", "n", "u", "l", "l", ",", " ", "1", "}", ")", "(", ")">>,
    <<"(", "(", ")", "=", ">", "{", "t", "h", "r", "o", "w", " ", " ", "n", "u", "l", "l", "}", ")", "(", ")">>,
    <<"(", "(", ")", "=", ">", "{", "t", "h", "r", "o", "w", " ", "}", ")", "(", ")">>,
    <<"(", "(", ")", "=", ">", "{", "t", "h", "r", "o", "w", " ", "n", "u", "l", "l">>,
    <<"1", "]", ";", " ", "(", "(", ")", "=", ">", "{", "t", "h", "r", "o", "w", " ", "n", "u", "l", "l", "}", ")", "(", ")", ";", " ", "[">>,
    <<"{", "a", ":", " ", "(", "(", ")", "=", ">", "{", "t", "h", "r", "o", "w", " ", "n", "u", "l", "l", "}", ")", "(", ")", "}">>,
    <<"{", "[", "(", "(", ")", "=", ">", "{", "t", "h", "r", "o", "w", " ", "n", "u", "l", "l", "}", ")", "(", ")", "]", ":", " ", "o", "o", "p", "s", "}">>,
    <<"(", "(", ")", "=", ">", "{", "t", "h", "r", "o", "w", " ", "x", " ", "=", " ", "n", "u", "l", "l", "}", ")", "(", ")", ",", " ", "x">>,
    <<"1", ",", " ", "2", "]", "[", "(", "(", ")", "=", ">", "{", "t", "h", "r", "o", "w", " ", "u", "n", "d", "e", "f", "i", "n", "e", "d", "}", ")", "(", ")">>,
    <<"1", "(", "(", "(", ")", "=", ">", "{", "t", "h", "r", "o", "w", " ", "n", "u", "l", "l", "}", ")", "(", ")", ")">>,
    <<"1", "(", "o", "o", "p", "s", ",", " ", "(", "(", ")", "=", ">", "{", "t", "h", "r", "o", "w", " ", "n", "u", "l", "l", "}", ")", "(", ")", ")">>,
    <<"(", "(", ")", "=", ">", "{", "t", "h", "r", "o", "w", " ", "n", "u", "l", "l", "}", ")", "(", ")", "(", "1", ")">>,
    <<"1", "(", "(", "(", ")", "=", ">", "{", "t", "h", "r", "o", "w", " ", "1", "}", ")", "(", ")", ",", " ", "}">> }

\* argument texts that assign names of the global scope
AssignTexts ==
  { <<"x", "=", "1">>,
    <<"x", " ", "=", " ", "1", ",", " ", "x">>,
    <<"x">>,
    <<"x", ",", " ", "x", " ", "=", " ", "1">>,
    <<"x", " ", "=", " ", "y", " ", "=", " ", "2", ",", " ", "y">>,
    <<"[", "x", " ", "=", " ", "[", "1", ",", " ", "2", "]", "]", "[", "0", "]", "[", "1", "]", ",", " ", "x">>,
    <<"{", "a", ":", " ", "x", " ", "=", " ", "1", "}", ",", " ", "x">>,
    <<"x", " ", "=", " ", "o", "o", "p", "s">>,
    <<"x", " ", "=", " ", "1", ",", " ", "o", "o", "p", "s", ",", " ", "y", " ", "=", " ", "2">>,
    <<"x", " ", "=", " ", "1", ",", " ", "}">>,
    <<"x", " ", "=", " ", "1", ",", " ", "x", " ", "=", " ", "2", ",", " ", "x">>,
    <<"1", "]", ";", " ", "x", " ", "=", " ", "1", ";", " ", "[">>,
    <<"x", " ", "=", " ", "{", "a", ":", " ", "1", "}", ",", " ", "{", "x", "}">>,
    <<"x", " ", "=">>,
    <<"x", " ", "=", " ", "1", "\n">>,
    <<"(", "x", " ", "=", " ", "1", ")", ",", " ", "x">>,
    <<"{", "[", "x", " ", "=", " ", "1", "]", ":", " ", "x", "}">>,
    <<"x", " ", "=", " ", "1", ",", " ", "(", "(", ")", "=", ">", "{", "t", "h", "r", "o", "w", " ", "n", "u", "l", "l", "}", ")", "(", ")">>,
    <<"1", "(", "x", " ", "=", " ", "2", ")">>,
    <<"1", "(", "x", " ", "=", " ", "2", ",", " ", "x", ")">>,
    <<"{", "[", "1", "(", "x", " ", "=", " ", "'", "a", "'", ",", " ", "{", "[", "x", "]", ":", "1", "}", ")", "]", ":", "1", "}">>,
    <<"1", "(", "x", " ", "=", " ", "2", ",", " ", "]">>,
    <<"n", "u", "l", "l", "[", "x", " ", "=", " ", "1", "]", ",", " ", "x">> }

\* the literals that lists of several are made of
ListTexts ==
  { <<"'", "x", "'">>,
    <<"\"", "x", "\"">>,
    <<"1">>,
    <<"t", "r", "u", "e">>,
    <<"n", "u", "l", "l">>,
    <<"u", "n", "d", "e", "f", "i", "n", "e", "d">>,
    <<"{", "a", ":", " ", "1", "}">>,
    <<"'", "x", ",", " ", "y", "'">>,
    <<"\"", "i", "t", "'", "s", "\"">> }

\* the literals, and those of ListTexts joined by ", " into lists of up to n
RECURSIVE LiteralLists(_)
LiteralLists(n) ==
  IF n = 0 THEN {<<>>}
  ELSE LiteralLists(n - 1)
         \cup {l \o <<",", " ">> \o x :
                 l \in (LiteralLists(n - 1) \ {<<>>}), x \in ListTexts}
         \cup LiteralTexts

\* the characters raw argument texts are enumerated over
RawAlphabet == {SQ, DQ, ",", "{", "}", ":", "a", "1", " "}

RawTexts == UNION {[1..n -> RawAlphabet] : n \in 0..MaxRawLen}

ArgTexts ==
  LiteralLists(MaxArgs) \cup ExampleTexts \cup TwoLineTexts \cup SpaceTexts
    \cup NumberTexts \cup KeyTexts \cup EarlyCloseTexts \cup BrokenTexts
    \cup EscapeTexts \cup ThrowTexts \cup AssignTexts \cup RawTexts

\* the invocation strings of the decoding specification
ParseTargets == {Invocation(params, a) : a \in ArgTexts}

\* the handler tables of the decoding specification: the one of the source,
\* and one whose params task has an opaque body
ParseTables ==
  {SourceMethods, BaseMethods \o <<Method("taskA", TRUE, params, "opaque")>>}

\* the handler tables of the concurrent specification
ConcTables ==
  {SourceMethods,
   BaseMethods \o <<Method("taskA", TRUE, params, "opaque"),
                    Method("taskB", TRUE, noParams, "opaque")>>}

(***************************************************************************)
(* Actions.                                                                *)
(***************************************************************************)
\* the state after new TaskService(reflector), for a prototype of tables
InitWith(tables) ==
  /\ methods \in tables
  /\ taskMap = initializeTasks(methods)
  /\ globals = <<>>
  /\ calls = [c \in Callers |-> IdleCall]
  /\ listed = [called |-> FALSE, names |-> <<>>]

\* the call d, suspended at the await of line 62, when the handler it
\* called threw instead of returning: the catch block runs at once
Thrown(d, thrown) == IF thrown = "none" THEN d ELSE Resume(d, thrown)

\* the ways the handler called by the call d can throw before it returns
ThrowsIn(prototype, d) ==
  IF d.pc = "awaiting" THEN ThrowsOf(prototype, d.invoked[1].fn) ELSE {"none"}

\* caller c calls executeTask(target): the call runs to its return, or to
\* the await of line 62 with the handler called, and the argument text has
\* run in the global scope; a handler that throws instead of returning ends
\* the call in this step.  An invocation string whose argument text is
\* outside the part of the language read is no input here.
ExecuteTask(c, target, thrown) ==
  LET d == Dispatch(taskMap, target, globals)
  IN  /\ calls[c].pc = "idle"
      /\ d.call.pc /= "outside"
      /\ thrown \in ThrowsIn(methods, d.call)
      /\ calls' = SetCall(calls, c, Thrown(d.call, thrown))
      /\ globals' = d.scope
      /\ UNCHANGED <<methods, taskMap, listed>>

\* the handler caller c's call awaits settles, and the call runs to its end
HandlerSettles(c, outcome) ==
  /\ calls[c].pc = "awaiting"
  /\ outcome \in OutcomesOf(methods, calls[c].invoked[1].fn)
  /\ calls' = SetCall(calls, c, Resume(calls[c], outcome))
  /\ UNCHANGED <<methods, taskMap, globals, listed>>

\* getTasks()
GetTasks ==
  /\ listed' = [called |-> TRUE, names |-> MapKeys(taskMap)]
  /\ UNCHANGED <<methods, taskMap, globals, calls>>

(***************************************************************************)
(* Spec: one caller, every handler table, the invocation strings of        *)
(* MainTargets.                                                            *)
(***************************************************************************)
Init == InitWith(MethodTables)

Call == \E target \in MainTargets, thrown \in Throws : ExecuteTask(1, target, thrown)

Settle == \E outcome \in Outcomes : HandlerSettles(1, outcome)

Next == Call \/ Settle \/ GetTasks

Spec == Init /\ [][Next]_vars

(***************************************************************************)
(* SpecParse: one caller, the params task, every argument text of          *)
(* ArgTexts.                                                               *)
(***************************************************************************)
InitParse == InitWith(ParseTables)

CallParse ==
  \E target \in ParseTargets, thrown \in Throws : ExecuteTask(1, target, thrown)

NextParse == CallParse \/ Settle

SpecParse == InitParse /\ [][NextParse]_vars

(***************************************************************************)
(* SpecConc: NumCalls callers whose calls overlap in any order.            *)
(***************************************************************************)
InitConc == InitWith(ConcTables)

CallConc ==
  \E c \in Callers, target \in ConcTargets, thrown \in Throws :
    ExecuteTask(c, target, thrown)

SettleConc == \E c \in Callers, outcome \in Outcomes : HandlerSettles(c, outcome)

NextConc == CallConc \/ SettleConc \/ GetTasks

SpecConc == InitConc /\ [][NextConc]_vars

(***************************************************************************)
(* Vocabulary of the properties.                                           *)
(***************************************************************************)
Started(c) == calls[c].pc /= "idle"

\* the task names the decorated methods carry
DecoratedNames ==
  {methods[i].name : i \in {j \in 1..Len(methods) : methods[j].decorated}}

\* the task names of the decorated methods, in the order of the prototype
DecoratedSeq ==
  LET F[i \in 0..Len(methods)] ==
        IF i = 0 THEN <<>>
        ELSE IF methods[i].decorated THEN Append(F[i - 1], methods[i].name)
        ELSE F[i - 1]
  IN  F[Len(methods)]

\* the last method of the prototype decorated with the task name
LastDecorated(name) ==
  LET last == CHOOSE i \in 1..Len(methods) :
                /\ methods[i].decorated /\ methods[i].name = name
                /\ \A j \in (i + 1)..Len(methods) :
                     ~(methods[j].decorated /\ methods[j].name = name)
  IN  methods[last].method

\* what the method called fn does when called
BodyOf(fn) ==
  LET i == CHOOSE j \in 1..Len(methods) : methods[j].method = fn
  IN  methods[i].body

\* the text of an invocation string before its first "("
NamePart(t) ==
  IF IndexOf(t, 1, "(") = 0 THEN t ELSE SubSeq(t, 1, IndexOf(t, 1, "(") - 1)

\* the text between the first "(" of an invocation string and its last
\* character
ArgPart(t) == SubSeq(t, IndexOf(t, 1, "(") + 1, Len(t) - 1)

\* neither name nor name(args): empty, starting with "(", or holding a "("
\* without ending in ")"
Malformed(t) ==
  \/ t = <<>>
  \/ t[1] = "("
  \/ IndexOf(t, 1, "(") /= 0 /\ t[Len(t)] /= ")"

\* the text is a list of literals as written: it is the inside of one
\* array literal, which evaluates and assigns no name, and no element is
\* elided
LiteralList(text) ==
  LET r == EvalArray(text, <<>>)
  IN  r.ok /\ r.single /\ r.scope = <<>> /\ \A i \in 1..Len(r.v) : r.v[i] /= EncHole

\* the characters s[j..b] of a string literal hold no single quote,
\* escaped or not, and no double quote that is not escaped
RECURSIVE PlainChars(_, _, _)
PlainChars(s, j, b) ==
  IF j > b THEN TRUE
  ELSE IF s[j] = "\\" THEN s[j + 1] /= SQ /\ PlainChars(s, EscapeEnd(s, j), b)
  ELSE s[j] \notin {SQ, DQ} /\ PlainChars(s, j + 1, b)

\* from s[i] on, no string literal of s holds a single quote, a double
\* quote that is not escaped, or a match of the key pattern
RECURSIVE PlainFrom(_, _)
PlainFrom(s, i) ==
  IF i > Len(s) THEN TRUE
  ELSE IF s[i] \in {SQ, DQ} THEN
    LET e == StringEnd(s, i)
    IN  /\ e /= 0
        /\ PlainChars(s, i + 1, e - 2)
        /\ \A k \in (i + 1)..(e - 2) :
             KeyMatchEnd(SubSeq(s, i + 1, e - 2), k - i) = 0
        /\ PlainFrom(s, e)
  ELSE PlainFrom(s, i + 1)

PlainStrings(text) == PlainFrom(text, 1)

\* the text is not blank and, once normalized, does not evaluate in the
\* global scope: the body is ill-formed, or its run raises
Undecodable(text, scope) ==
  /\ ~IsBlank(text)
  /\ ~EvalArray(Normalize(text), scope).ok
  /\ ~EvalArray(Normalize(text), scope).out

FullPaths ==
  { <<"Parsing", "ParseFailed">>,
    <<"Parsing", "Parsed", "Lookup", "NotFound">>,
    <<"Parsing", "Parsed", "Lookup", "Found", "Invoking", "Faulted">>,
    <<"Parsing", "Parsed", "Lookup", "Found", "Invoking", "Completed">> }

FailedPaths ==
  FullPaths \ {<<"Parsing", "Parsed", "Lookup", "Found", "Invoking", "Completed">>}

\* a task name, the handler of the source behind it, and names that are
\* not task names
RyNoParamsName == <<"r", "y", "N", "o", "P", "a", "r", "a", "m", "s">>
OwnMethodNames ==
  { <<"e", "x", "e", "c", "u", "t", "e", "T", "a", "s", "k">>,
    <<"g", "e", "t", "T", "a", "s", "k", "s">>,
    <<"p", "a", "r", "s", "e", "P", "a", "r", "a", "m", "s">>,
    <<"i", "n", "i", "t", "i", "a", "l", "i", "z", "e", "T", "a", "s", "k", "s">>,
    RyNoParamsName,
    <<"p", "a", "r", "a", "m", "s", " ">> }

(***************************************************************************)
(* C1.                                                                     *)
(***************************************************************************)
\* C1: no executeTask call lets an exception reach its caller; a call that
\* finishes returns a boolean, whatever the string and whatever the handler
\* raised.
C1_NeverPropagates ==
  \A c \in Callers :
    /\ calls[c].pc /= "rejected"
    /\ calls[c].pc = "returned" => calls[c].result \in {"true", "false"}

(***************************************************************************)
(* C2.                                                                     *)
(***************************************************************************)
\* C2: every call follows Idle, Parsing, ParseFailed or Parsed, Lookup,
\* NotFound or Found, Invoking, Faulted or Completed; the handler is called
\* at most once and only after Parsed and Found; true is returned only from
\* Completed; ParseFailed, NotFound and Faulted return false.
C2_StateMachine ==
  \A c \in Callers :
    Started(c) =>
      /\ calls[c].path \in
           FullPaths \cup {<<"Parsing", "Parsed", "Lookup", "Found", "Invoking">>}
      /\ Len(calls[c].invoked) <= 1
      /\ calls[c].invoked /= <<>> =>
           SubSeq(calls[c].path, 1, 4) = <<"Parsing", "Parsed", "Lookup", "Found">>
      /\ calls[c].result = "true" =>
           /\ calls[c].path[Len(calls[c].path)] = "Completed"
           /\ calls[c].outcome = "completed"
           /\ Len(calls[c].invoked) = 1
      /\ calls[c].path \in FailedPaths =>
           calls[c].pc = "returned" /\ calls[c].result = "false"

(***************************************************************************)
(* C3.                                                                     *)
(***************************************************************************)
\* C3: a call whose name is not the task name of a decorated method returns
\* false and calls no handler; the keys of the registry are exactly the task
\* names of the decorated methods, so with the handlers of the source the
\* names of the service's own methods, a handler's method name and a task
\* name followed by a space are not keys.
C3_UnknownName ==
  /\ {taskMap[i].name : i \in 1..Len(taskMap)} = DecoratedNames
  /\ methods = SourceMethods =>
       \A n \in OwnMethodNames : \A i \in 1..Len(taskMap) : taskMap[i].name /= n
  /\ \A c \in Callers :
       Started(c) /\ NamePart(calls[c].target) \notin DecoratedNames =>
         /\ calls[c].pc = "returned"
         /\ calls[c].result = "false"
         /\ calls[c].invoked = <<>>

\* a call naming the method ryNoParams, under the handlers of the source,
\* has returned
C3_Witness ==
  /\ methods = SourceMethods
  /\ calls[1].pc = "returned"
  /\ calls[1].target = RyNoParamsName

(***************************************************************************)
(* C4.                                                                     *)
(***************************************************************************)
\* C4: a call whose string is a bare task name calls the handler registered
\* for that name once, with no argument, and no other handler; it returns
\* true when the handler completes, which the handlers of the source always
\* do.
C4_BareName ==
  \A c \in Callers :
    Started(c) /\ calls[c].target \in DecoratedNames =>
      /\ calls[c].invoked =
           <<[fn |-> LastDecorated(calls[c].target), args |-> <<>>]>>
      /\ calls[c].pc = "returned" /\ calls[c].outcome = "completed" =>
           calls[c].result = "true"
      /\ BodyOf(LastDecorated(calls[c].target)) = "logs" =>
           /\ calls[c].pc \in {"awaiting", "returned"}
           /\ calls[c].pc = "returned" => calls[c].result = "true"

\* executeTask("clearTemp") has returned true under the handlers of the source
C4_Witness ==
  /\ methods = SourceMethods
  /\ calls[1].target = clearTemp
  /\ calls[1].pc = "returned"
  /\ calls[1].result = "true"
  /\ calls[1].invoked = <<[fn |-> "clearTemp", args |-> <<>>]>>

(***************************************************************************)
(* C5.                                                                     *)
(***************************************************************************)
\* C5 as claimed: for every name(a1, ..., an) with a registered name and
\* valid literals, the handler is called with the n decoded values in the
\* written order, whatever the strings among them contain.
C5_AnyStringContent ==
  \A c \in Callers :
    Started(c) /\ LiteralList(ArgPart(calls[c].target)) =>
      calls[c].invoked =
        <<[fn |-> MapGet(taskMap, params),
           args |-> EvalArray(ArgPart(calls[c].target), <<>>).v]>>

\* C5 as amended: the same, for the invocation strings written on one line
\* whose literals hold no string with a single quote, with a double quote
\* that no backslash escapes, or with a "{" or "," followed by an identifier
\* and ":" (white space allowed around the identifier).
C5_PlainStrings ==
  \A c \in Callers :
    /\ Started(c)
    /\ LiteralList(ArgPart(calls[c].target))
    /\ PlainStrings(ArgPart(calls[c].target))
    /\ \A i \in 1..Len(calls[c].target) : calls[c].target[i] \notin LineTerminators
    => calls[c].invoked =
         <<[fn |-> MapGet(taskMap, params),
            args |-> EvalArray(ArgPart(calls[c].target), <<>>).v]>>

\* executeTask("params('x', 1, false)") has returned true, its handler
\* having received 'x', 1 and false
C5_Witness ==
  /\ calls[1].target = Invocation(params, <<"'", "x", "'", ",", " ", "1", ",", " ", "f", "a", "l", "s", "e">>)
  /\ calls[1].pc = "returned"
  /\ calls[1].result = "true"
  /\ calls[1].invoked =
       <<[fn |-> "ryParams",
          args |-> <<EncString(<<"x">>), EncNumber(<<"1">>), EncFalse>>]>>

(***************************************************************************)
(* C6.                                                                     *)
(***************************************************************************)
\* C6: when the handler of a call raises, the call returns false, lets no
\* error out and writes exactly one error entry, whatever the argument text
\* was.
C6_HandlerRaises ==
  \A c \in Callers :
    calls[c].outcome \in {"raisedError", "raisedNullish"} =>
      /\ calls[c].pc = "returned"
      /\ calls[c].result = "false"
      /\ Len(calls[c].errors) = 1

(***************************************************************************)
(* C7.                                                                     *)
(***************************************************************************)
\* C7: when the decorated methods carry pairwise distinct task names,
\* getTasks returns exactly those names in the order of registration; when
\* two carry the same name the registry holds one entry for it, and a call
\* of that name goes to the later method.
C7_Registry ==
  /\ (\A i, j \in 1..Len(DecoratedSeq) :
        DecoratedSeq[i] = DecoratedSeq[j] => i = j)
       => /\ MapKeys(taskMap) = DecoratedSeq
          /\ listed.called => listed.names = DecoratedSeq
  /\ \A n \in DecoratedNames :
       /\ Cardinality({i \in 1..Len(taskMap) : taskMap[i].name = n}) = 1
       /\ MapGet(taskMap, n) = LastDecorated(n)
  /\ listed.called =>
       /\ Len(listed.names) = Cardinality(DecoratedNames)
       /\ {listed.names[i] : i \in 1..Len(listed.names)} = DecoratedNames
  /\ \A c \in Callers :
       calls[c].invoked /= <<>> =>
         calls[c].invoked[1].fn = LastDecorated(calls[c].methodName)

\* two methods carry the task name params, getTasks has listed it once and
\* a params call has gone to the later method
C7_Witness ==
  /\ listed.called
  /\ listed.names = <<params>>
  /\ Len(methods) = Len(BaseMethods) + 2
  /\ \A i \in (Len(BaseMethods) + 1)..Len(methods) :
       methods[i].decorated /\ methods[i].name = params
  /\ calls[1].pc = "returned"
  /\ calls[1].invoked /= <<>>
  /\ calls[1].invoked[1].fn = methods[Len(methods)].method

(***************************************************************************)
(* C8.                                                                     *)
(***************************************************************************)
\* C8: when the name is registered and the argument text, which reaches
\* parseParams when the invocation string is written on one line, does not
\* evaluate once normalized, the failure is logged as an error, the handler
\* is called once with no argument, and the call returns true if the handler
\* completes.
C8_DecodeFailure ==
  \A c \in Callers :
    /\ Started(c)
    /\ Undecodable(ArgPart(calls[c].target), calls[c].scope)
    /\ \A i \in 1..Len(calls[c].target) : calls[c].target[i] \notin LineTerminators
    => /\ calls[c].pc \in {"awaiting", "returned", "rejected"}
       /\ calls[c].errors /= <<>> /\ calls[c].errors[1] = "parseParams"
       /\ calls[c].invoked = <<[fn |-> MapGet(taskMap, params), args |-> <<>>]>>
       /\ calls[c].outcome = "completed" =>
            /\ calls[c].pc = "returned"
            /\ calls[c].result = "true"
            /\ calls[c].errors = <<"parseParams">>

(***************************************************************************)
(* C9.                                                                     *)
(***************************************************************************)
\* C9: a call whose string is empty, starts with "(" or holds a "(" without
\* ending in ")" fails before any lookup: it returns false, calls no
\* handler, lets no error out and writes one error entry.
C9_FormatError ==
  \A c \in Callers :
    Started(c) /\ Malformed(calls[c].target) =>
      /\ calls[c].pc = "returned"
      /\ calls[c].result = "false"
      /\ calls[c].invoked = <<>>
      /\ calls[c].errors = <<"executeTask">>
      /\ calls[c].path = <<"Parsing", "ParseFailed">>

\* executeTask("badSyntax(((") has returned false
C9_Witness ==
  /\ calls[1].target = <<"b", "a", "d", "S", "y", "n", "t", "a", "x", "(", "(", "(">>
  /\ calls[1].pc = "returned"
  /\ calls[1].result = "false"

(***************************************************************************)
(* C10.                                                                    *)
(***************************************************************************)
\* what a call of target is when it runs alone, in the global scope of a
\* process that made no other call, against the registry map, its handler
\* having ended with outcome ("none": it has not ended)
Alone(map, target, outcome) ==
  IF Dispatch(map, target, <<>>).call.pc = "awaiting" /\ outcome /= "none"
    THEN Resume(Dispatch(map, target, <<>>).call, outcome)
    ELSE Dispatch(map, target, <<>>).call

\* C10, the state part: of every call made while the other calls are
\* suspended at their handlers, the handler called, the arguments it
\* received and what the call returned are what they would be had the call
\* run alone, given its own string and its own handler's outcome.
C10_AsAlone ==
  \A c \in Callers :
    Started(c) /\ (\A d \in Callers \ {c} : calls[d].pc = "awaiting") =>
      LET alone == Alone(initializeTasks(methods), calls[c].target, calls[c].outcome)
      IN  /\ calls[c].invoked = alone.invoked
          /\ calls[c].result = alone.result

\* C10, the step part: no step changes the registry, and a step of one call
\* changes no other call.
C10_Frame ==
  /\ taskMap' = taskMap
  /\ methods' = methods
  /\ \A c, d \in Callers : (c /= d /\ calls'[c] /= calls[c]) => calls'[d] = calls[d]

\* C10: calls in flight together run independently, and the registry, the
\* only state they share, is never changed.
C10_Independent == []C10_AsAlone /\ [][C10_Frame]_vars

=============================================================================
